---- MODULE Spec2Model ----
(***************************************************************************)
(* SuperLibraryMachine: the serving process (web/app.py, web/rag_server.py) *)
(* and the ingestion pipeline it drives (pipelinefiles/*.py).               *)
(*                                                                          *)
(* Spec      : concurrent build requests of the Flask process over one      *)
(*             database root.                                               *)
(* SpecQuery : queries and listings while one client builds databases.      *)
(* SpecEmbed : embed_chunks, its worker processes and the shard merge.      *)
(*                                                                          *)
(* Database names are modelled as the naturals 1..MaxDbNames; the order of  *)
(* the naturals stands for the string order that sorted() uses.  The name 0 *)
(* stands for ".", which resolves to the database root itself.              *)
(***************************************************************************)
EXTENDS Integers, Sequences, FiniteSets, TLC

\* ------------------------------------------------------------------ bounds
MaxDbNames == 2
MaxEntries == 3
MaxWorkers == 3
MaxRecordValue == 2
MaxParagraphs == 4
MaxParaTokens == 2
MaxMinTokens == 5
MaxOverlap == 2
MaxIndexRows == 2

DbNames == 1..MaxDbNames
\* The request threads of the Flask process that are under way at once.
BuildReqs == {"b1", "b2"}
Queries == {"q1", "q2"}
\* The seconds of the wall clock that a run spans.
Seconds == {0, 1}

\* The directory shipped under the default database root (exampleDBs).
SampleDb == 1

VARIABLES
    \* file system under DB_BASE_PATH
    rootExists,     \* DB_BASE_PATH.exists()
    dbDirs,         \* names of the directories under DB_BASE_PATH
    hasIndex,       \* names whose faiss_index.idx exists
    hasMeta,        \* names whose faiss_metadata.pkl exists
    made_by,        \* name -> the request under way whose mkdir made the
                    \* directory, "old" for a directory of no request under
                    \* way, "none" for no directory
    \* web/app.py
    BUILD_LOCK,     \* TRUE while the threading.Lock is held
    bpc,            \* build request -> position in build_database
    bname,          \* build request -> target name (0 = the root, -1 = none)
    created_dir,    \* build request -> target_dir.mkdir succeeded in this request
    build_error,    \* build request -> an exception was caught at line 204
    response,       \* build request thread -> its last response ("none" while under way)
    mergedRows,     \* build request -> rows of the merged file that the index stage is to read
    workerFailed,   \* build request -> some embedding worker did not finish
    docFailed,      \* build request -> the chunking of some document raised
    processed_pdfs, \* build request -> where the PDFs of its papers directory
                    \* are: "source", "target" (under pdf_dir), "split", "removed"
    \* web/app.py home() and web/rag_server.py run_rag()
    qpc,            \* query -> position in home / run_rag
    qdb,            \* query -> selected_db
    qresult,        \* query -> [answer, citations] rendered by home()
    apiListing,     \* the last response of /api/databases
    OPENAI_API_KEY, \* the value of the environment variable, or "unset"
    _client,        \* the key the cached client was built from, or "None"
    api_key,        \* thread -> the key line 55 read, "none" outside lines 55-58
    client,         \* thread -> the client its last attempt got at line 92
    ntotal,         \* the number of rows of the index that queries search
    refined_prompt, \* query -> "none" | "user_input" | "rewritten" | "None"
    query_vec,      \* query -> the prompt that line 121 encoded, or "none"
    reply,          \* query -> the generated answer, <<>> while there is none
    now,            \* the second the wall clock shows
    logs,           \* the files of the log directory, as <<second, record>>
    \* pipelinefiles/embed_chunks_multigpu.py
    embed_args,     \* num_workers and device as passed, and the device count
    entries,        \* the records loaded from the chunk file
    num_workers,    \* the worker count after lines 108-124
    shards,         \* _chunkify(entries, num_workers)
    processes,      \* rank -> "unstarted" | "running" | "exit0" | "exit1"
    shardFile,      \* rank -> the lines of shard_<rank>.jsonl, or NoFile
    final_output,   \* the lines of the merged file, or NoFile
    epc,            \* position of embed_chunks
    eidx,           \* loop index of the spawn / join / merge loop
    outOfOrder,     \* some worker terminated while a lower rank was still running
    \* pipelinefiles/build_faiss_index.py
    embedding_file, \* the lines of the merged embedded-chunk file (0: a broken line)
    embeddings,     \* the list of vectors read so far
    metadata,       \* the list of summaries read so far
    index_file,     \* the rows of faiss_index.idx, or NoFile
    metadata_file,  \* the rows of faiss_metadata.pkl, or NoFile
    ipc,            \* position of build_faiss_index
    \* pipelinefiles/chunker_updated.py
    txt_files,      \* filename -> its paragraphs, each given by its token count
    join_cost,      \* tokens that a joint of " ".join adds to the encoding
    min_tokens,     \* --min-tokens
    overlap,        \* --overlap
    pending,        \* the files whose future has not been collected
    cfile,          \* the file whose paragraphs are being grouped, or "none"
    ci,             \* i of group_paragraphs_by_min_tokens
    file_chunks,    \* chunks of group_paragraphs_by_min_tokens
    iterations,     \* turns of the outer loop taken for cfile
    out_file,       \* the records written to the chunk file
    \* web/rag_server.py run_rag, lines 122-131
    I,              \* I[0] of index.search: the row of each slot, -1 for none
    slot_rank,      \* the slots the loop of line 126 is done with
    retrieved_chunks, \* the context entries, as <<citation, row>>
    chunk_lookup,   \* the lookup entries, as <<citation, row>>
    \* web/rag_server.py call_openai_chat, one query at a time in run_rag
    cpc,            \* query -> the call of run_rag it is in, "idle" or "over"
    attempt,        \* query -> turns of the loop of line 90 taken in this call
    call_result,    \* query -> what line 97 is about to return, or "pending"
    returned,       \* query -> what the calls of this query have returned
    attempts_made,  \* query -> service attempts of this query
    slept           \* query -> seconds of time.sleep in this query

fsVars == <<rootExists, dbDirs, hasIndex, hasMeta, made_by>>
buildVars == <<BUILD_LOCK, bpc, bname, created_dir, build_error, response,
               mergedRows, workerFailed, docFailed, processed_pdfs>>
ragVars == <<OPENAI_API_KEY, _client, ntotal, refined_prompt, query_vec, reply,
             now, logs>>
clientVars == <<api_key, client>>
queryVars == <<qpc, qdb, qresult, apiListing, ragVars, clientVars>>
embedVars == <<embed_args, entries, num_workers, shards, processes, shardFile,
               final_output, epc, eidx, outOfOrder>>
indexVars == <<embedding_file, embeddings, metadata, index_file, metadata_file,
               ipc>>
chunkVars == <<txt_files, join_cost, min_tokens, overlap, pending, cfile, ci, file_chunks,
               iterations, out_file>>
searchVars == <<I, slot_rank, retrieved_chunks, chunk_lookup>>
callVars == <<cpc, attempt, call_result, returned, attempts_made, slept>>
stageVars == <<indexVars, chunkVars, searchVars, callVars>>
vars == <<fsVars, buildVars, queryVars, embedVars, stageVars>>

NoFile == <<"absent">>

\* ------------------------------------------------------- pure helpers
Min2(a, b) == IF a <= b THEN a ELSE b
Max2(a, b) == IF a >= b THEN a ELSE b

SetMin(S) == CHOOSE x \in S : \A y \in S : x <= y

\* Python's sorted() over a generator of distinct names.
RECURSIVE sorted(_)
sorted(S) == IF S = {} THEN <<>>
             ELSE <<SetMin(S)>> \o sorted(S \ {SetMin(S)})

Range(s) == {s[i] : i \in 1..Len(s)}

\* ------------------------------------------------- web/rag_server.py
TargetExists(n) == IF n = 0 THEN rootExists ELSE n \in dbDirs

list_databases_unfiltered ==
    IF ~rootExists THEN <<>> ELSE sorted(dbDirs)

list_databases ==
    IF ~rootExists THEN <<>>
    ELSE sorted({n \in dbDirs : n \in hasIndex})

\* ------------------------------------------------------- web/app.py
NameKinds == {"missing", "invalid", "dotdot", "dot", "valid"}
PapersKinds == {"missing", "nonexistent", "not_dir", "no_pdf", "nested_pdf", "pdf"}
Rejections == {"name_required", "name_invalid", "papers_required",
               "papers_missing", "papers_not_dir", "no_pdf", "invalid_path",
               "already_exists"}
Results == Rejections \cup {"none", "busy", "failure", "success", "escaped"}

\* VALID_DB_NAME.match(db_name): "." and ".." consist of allowed characters.
VALID_DB_NAME_unanchored(kind) == kind \in {"dotdot", "dot", "valid", "invalid"}
VALID_DB_NAME(kind) == kind \in {"dotdot", "dot", "valid"}

\* The checks of build_database, in the order of the code; "ok" when all pass.
validation_error(kind, id, papers, recursive) ==
    IF kind = "missing" THEN "name_required"
    ELSE IF ~VALID_DB_NAME(kind) THEN "name_invalid"
    ELSE IF papers = "missing" THEN "papers_required"
    ELSE IF papers = "nonexistent" THEN "papers_missing"
    ELSE IF papers = "not_dir" THEN "papers_not_dir"
    ELSE IF ~(papers = "pdf" \/ (papers = "nested_pdf" /\ recursive)) THEN "no_pdf"
    ELSE IF kind = "dotdot" THEN "invalid_path"
    ELSE IF TargetExists(IF kind = "dot" THEN 0 ELSE id) THEN "already_exists"
    ELSE "ok"

\* BUILD_LOCK.acquire(blocking=False): TRUE when this request got the lock.
InPipeline(s) ==
    bpc[s] \in {"parse", "convert", "organize", "extract", "chunk", "embed",
                "index", "index_meta"}
lock_acquire_unchecked(r) == TRUE
lock_acquire_per_name(r) ==
    ~\E s \in BuildReqs : s # r /\ (InPipeline(s) \/ bpc[s] = "release")
                          /\ bname[s] = bname[r]
lock_acquire(r) == ~BUILD_LOCK

\* shutil.rmtree(target_dir, ignore_errors=True): the directories left.
rmtree_skipped(r) == dbDirs
rmtree(r) == dbDirs \ {bname[r]}

BuildInit ==
    /\ BUILD_LOCK = FALSE
    /\ bpc = [r \in BuildReqs |-> "idle"]
    /\ bname = [r \in BuildReqs |-> -1]
    /\ created_dir = [r \in BuildReqs |-> FALSE]
    /\ build_error = [r \in BuildReqs |-> FALSE]
    /\ response = [r \in BuildReqs |-> "none"]
    /\ mergedRows = [r \in BuildReqs |-> 0]
    /\ workerFailed = [r \in BuildReqs |-> FALSE]
    /\ docFailed = [r \in BuildReqs |-> FALSE]
    /\ processed_pdfs = [r \in BuildReqs |-> "source"]

FsInit ==
    /\ rootExists \in BOOLEAN
    /\ dbDirs = IF rootExists THEN {SampleDb} ELSE {}
    /\ hasIndex = dbDirs
    /\ hasMeta = dbDirs
    /\ made_by = [d \in DbNames |-> IF d \in dbDirs THEN "old" ELSE "none"]

\* The form inputs, one per case the checks of lines 101-128 tell apart.
AllBuildInputs == NameKinds \X DbNames \X PapersKinds \X BOOLEAN
BuildInputs ==
    {in \in AllBuildInputs :
        /\ (in[1] # "valid" => in[2] = 1 /\ in[3] = "pdf")
        /\ (in[3] # "pdf" => in[2] = 1)
        /\ (in[3] # "nested_pdf" => in[4] = FALSE)}

\* The request is over: its locals are gone and its response is sent.
Returned(r, result) ==
    /\ bpc' = [bpc EXCEPT ![r] = "idle"]
    /\ response' = [response EXCEPT ![r] = result]
    /\ bname' = [bname EXCEPT ![r] = -1]
    /\ created_dir' = [created_dir EXCEPT ![r] = FALSE]
    /\ build_error' = [build_error EXCEPT ![r] = FALSE]
    /\ mergedRows' = [mergedRows EXCEPT ![r] = 0]
    /\ workerFailed' = [workerFailed EXCEPT ![r] = FALSE]
    /\ docFailed' = [docFailed EXCEPT ![r] = FALSE]

\* build_database, lines 96-128, for one request with the given form input.
build_database_validate_with(r, kind, id, papers, recursive) ==
    /\ bpc[r] = "idle"
    /\ LET err == validation_error(kind, id, papers, recursive) IN
         IF err = "ok"
         THEN /\ bpc' = [bpc EXCEPT ![r] = "prepare"]
              /\ bname' = [bname EXCEPT ![r] = IF kind = "dot" THEN 0 ELSE id]
              /\ response' = [response EXCEPT ![r] = "none"]
              /\ UNCHANGED <<created_dir, build_error, mergedRows, workerFailed, docFailed>>
         ELSE Returned(r, err)
    /\ processed_pdfs' = [processed_pdfs EXCEPT ![r] = "source"]
    /\ UNCHANGED <<fsVars, BUILD_LOCK, queryVars, embedVars, stageVars>>

build_database_validate(r) ==
    \E in \in BuildInputs :
        build_database_validate_with(r, in[1], in[2], in[3], in[4])

\* Line 131, target_dir.mkdir(parents=True, exist_ok=False), raises
\* FileExistsError when the path exists.  First a mkdir with exist_ok=True,
\* which raises for the root alone.
mkdir_exist_ok_raises(r) == bname[r] = 0
mkdir_raises(r) == bname[r] = 0 \/ bname[r] \in dbDirs

\* The directories as they are known once request r has returned: what r
\* made and left is then a directory like any other.
left_behind(r) == [d \in DbNames |-> IF made_by[d] = r THEN "old" ELSE made_by[d]]

\* Lines 130-194: DB_BASE_PATH.mkdir, target_dir.mkdir(exist_ok=False), then
\* the option loops.  FileExistsError (the target appeared since line 127, or
\* is the root itself) and AttributeError (_normalize_path of an option value
\* that is not a string) are raised outside every try block.
\* The directory bname[r] is there when the call returns; it is the making of
\* the request only when it was not there before.
build_database_prepare(r) ==
    /\ bpc[r] = "prepare"
    /\ rootExists' = TRUE
    /\ IF mkdir_raises(r)
       THEN /\ Returned(r, "escaped")
            /\ UNCHANGED <<dbDirs, made_by>>
       ELSE /\ dbDirs' = dbDirs \cup {bname[r]}
            /\ \E optionsAreStrings \in BOOLEAN :
                 IF optionsAreStrings
                 THEN /\ bpc' = [bpc EXCEPT ![r] = "acquire"]
                      /\ created_dir' = [created_dir EXCEPT ![r] = TRUE]
                      /\ made_by' = IF bname[r] \in dbDirs THEN made_by
                                    ELSE [made_by EXCEPT ![bname[r]] = r]
                      /\ UNCHANGED <<response, bname, build_error, mergedRows,
                                     workerFailed, docFailed>>
                 ELSE /\ Returned(r, "escaped")
                      /\ made_by' = IF bname[r] \in dbDirs THEN made_by
                                    ELSE [made_by EXCEPT ![bname[r]] = "old"]
    /\ UNCHANGED <<hasIndex, hasMeta, BUILD_LOCK, processed_pdfs, queryVars,
                   embedVars, stageVars>>

\* Lines 196-197.
build_database_acquire(r) ==
    /\ bpc[r] = "acquire"
    /\ IF lock_acquire(r)
       THEN /\ BUILD_LOCK' = TRUE
            /\ bpc' = [bpc EXCEPT ![r] = "parse"]
            /\ UNCHANGED <<response, bname, created_dir, build_error,
                           mergedRows, workerFailed, docFailed>>
            /\ UNCHANGED made_by
       ELSE /\ Returned(r, "busy")
            /\ made_by' = left_behind(r)
            /\ UNCHANGED BUILD_LOCK
    /\ UNCHANGED <<rootExists, dbDirs, hasIndex, hasMeta, processed_pdfs,
                   queryVars, embedVars, stageVars>>

\* Where build_database is after a call of run_pipeline: an exception leaves
\* run_pipeline for the except clause at line 204, a return goes on to the
\* next call.  The variants are a stage that reports its exception and
\* returns, and an exception that passes the finally clause by.
after_call_reported(raises, to) == to
after_call_unreleased(raises, to) == IF raises THEN "finish" ELSE to
after_call(raises, to) == IF raises THEN "release" ELSE to

\* A stage that touches nothing the model tracks: it returns, or it raises and
\* the except clause at line 204 stores the exception.
Stage(r, from, to) ==
    /\ bpc[r] = from
    /\ \E raises \in BOOLEAN :
         /\ bpc' = [bpc EXCEPT ![r] = after_call(raises, to)]
         /\ build_error' = [build_error EXCEPT ![r] = raises]
    /\ UNCHANGED <<fsVars, BUILD_LOCK, bname, created_dir, response, mergedRows,
                   workerFailed, docFailed, processed_pdfs, queryVars, embedVars, stageVars>>

\* Line 202; argparse leaves by SystemExit, which BaseException catches.
parse_pipeline_args(r) == Stage(r, "parse", "convert")
\* run_pipeline lines 88-104: resolve_paths, cleanup_mac_metadata, convert_pdfs,
\* and the test of args.skip_organize.
convert_pdfs(r) ==
    \E skip_organize \in BOOLEAN :
        Stage(r, "convert", IF skip_organize THEN "extract" ELSE "organize")
\* run_pipeline lines 104-106, organize_library lines 48-56: each PDF outside
\* pdf_dir is renamed into it, pdf_dir being <target>/pdf by the defaults of
\* build_database (app.py line 135).  A rename that raises leaves the PDFs
\* before it moved and the others in place.
organize_library(r) ==
    /\ bpc[r] = "organize"
    /\ \E raises \in BOOLEAN :
         /\ bpc' = [bpc EXCEPT ![r] = after_call(raises, "extract")]
         /\ build_error' = [build_error EXCEPT ![r] = raises]
         /\ IF raises
            THEN \E left \in {"source", "split"} :
                    processed_pdfs' = [processed_pdfs EXCEPT ![r] = left]
            ELSE processed_pdfs' = [processed_pdfs EXCEPT ![r] = "target"]
    /\ UNCHANGED <<fsVars, BUILD_LOCK, bname, created_dir, response, mergedRows,
                   workerFailed, docFailed, queryVars, embedVars, stageVars>>
\* run_pipeline lines 108-113.
extract_dois(r) == Stage(r, "extract", "chunk")
\* run_pipeline lines 115-123, chunk_texts: it raises (the metadata file, the
\* output file, the executor), or it returns; the exception of the future of
\* a document is caught and printed at chunker_updated.py lines 161-162 and
\* the loop goes on with the next future.
chunk_texts(r) ==
    /\ bpc[r] = "chunk"
    /\ \E raises \in BOOLEAN, document_raises \in BOOLEAN :
         /\ bpc' = [bpc EXCEPT ![r] = after_call(raises, "embed")]
         /\ build_error' = [build_error EXCEPT ![r] = raises]
         /\ docFailed' = [docFailed EXCEPT ![r] = ~raises /\ document_raises]
    /\ UNCHANGED <<fsVars, BUILD_LOCK, bname, created_dir, response, mergedRows,
                   workerFailed, processed_pdfs, queryVars, embedVars, stageVars>>

\* ------------------------------ pipelinefiles/embed_chunks_multigpu.py
\* lst[start::step] with 0-based start, as Python evaluates the slice.
RECURSIVE slice(_, _, _)
slice(lst, start, step) ==
    IF start >= Len(lst) THEN <<>>
    ELSE <<lst[start + 1]>> \o slice(lst, start + step, step)

\* Contiguous blocks of Len \div chunks records: what a block partition
\* that forgets the remainder would give.
chunkify_blocks(lst, chunks) ==
    [i \in 0..(chunks - 1) |->
        SubSeq(lst, i * (Len(lst) \div chunks) + 1,
                    (i + 1) * (Len(lst) \div chunks))]

\* [lst[i::chunks] for i in range(chunks)], a function of the rank 0..chunks-1.
_chunkify(lst, chunks) ==
    [i \in 0..(chunks - 1) |-> slice(lst, i, chunks)]

\* Lines 108-124: the worker count for n records, and a variant whose
\* accelerator branch leaves out the number of entries.
worker_count_uncapped(requested, device, available, n) ==
    LET afterGpu == IF device = "gpu" /\ available # 0
                    THEN Min2(requested, available)
                    ELSE Max2(1, Min2(requested, n))
    IN  IF afterGpu <= 0 THEN 1 ELSE afterGpu
worker_count(requested, device, available, n) ==
    LET dev == IF device = "gpu" /\ available = 0 THEN "cpu" ELSE device
        afterGpu == IF device = "gpu" /\ available # 0
                    THEN Min2(Min2(requested, available), n)
                    ELSE requested
        afterCpu == IF dev = "cpu" THEN Max2(1, Min2(afterGpu, n)) ELSE afterGpu
    IN  IF afterCpu <= 0 THEN 1 ELSE afterCpu

\* Lines 142-148 after the joins of lines 139-140, which read no exit code:
\* the rows of the merged file when worker k wrote written[k] lines.
RECURSIVE merged_row_count(_, _)
merged_row_count(written, W) ==
    IF W = 0 THEN 0 ELSE written[W - 1] + merged_row_count(written, W - 1)

\* Lines 142-148 of embed_chunks for n records and the requested number of
\* workers: worker k leaves written[k] <= Len(shard k) lines behind and has
\* failed when it left fewer; the rows of the merged file, and whether some
\* worker failed.  Rank 0 holds the longest shard of lst[rank::num_workers].
embed_chunks_results(n, requested) ==
    IF n = 0 THEN {<<0, FALSE>>}
    ELSE LET W == worker_count(requested, "cpu", 0, n)
             sh == _chunkify([i \in 1..n |-> i], W)
         IN {<<merged_row_count(written, W),
               \E k \in 0..(W - 1) : written[k] < Len(sh[k])>> :
                written \in {w \in [0..(W - 1) -> 0..Len(sh[0])] :
                                \A k \in 0..(W - 1) : w[k] <= Len(sh[k])}}
EmbedResults ==
    UNION {embed_chunks_results(n, requested) :
              n \in 0..MaxEntries, requested \in 0..MaxWorkers}

\* run_pipeline lines 125-134, embed_chunks as one step of the build.
\* embed_chunks raises only before the spawn.
embed_chunks_stage(r) ==
    /\ bpc[r] = "embed"
    /\ \E raises \in BOOLEAN :
         IF raises
         THEN /\ bpc' = [bpc EXCEPT ![r] = "release"]
              /\ build_error' = [build_error EXCEPT ![r] = TRUE]
              /\ UNCHANGED <<mergedRows, workerFailed>>
         ELSE /\ bpc' = [bpc EXCEPT ![r] = "index"]
              /\ UNCHANGED build_error
              /\ \E result \in EmbedResults :
                   /\ mergedRows' = [mergedRows EXCEPT ![r] = result[1]]
                   /\ workerFailed' = [workerFailed EXCEPT ![r] = result[2]]
    /\ UNCHANGED <<fsVars, BUILD_LOCK, bname, created_dir, response, docFailed, processed_pdfs,
                   queryVars, embedVars, stageVars>>

\* ---------------------------------- pipelinefiles/build_faiss_index.py
\* Lines 41-74: read the merged file, raise ValueError on no embeddings,
\* else build the index and write faiss_index.idx.
build_faiss_index_write_index(r) ==
    /\ bpc[r] = "index"
    /\ \E raises \in BOOLEAN :
         IF raises \/ mergedRows[r] = 0
         THEN /\ bpc' = [bpc EXCEPT ![r] = "release"]
              /\ build_error' = [build_error EXCEPT ![r] = TRUE]
              /\ UNCHANGED hasIndex
         ELSE /\ bpc' = [bpc EXCEPT ![r] = "index_meta"]
              /\ hasIndex' = hasIndex \cup ({bname[r]} \cap dbDirs)
              /\ UNCHANGED build_error
    /\ mergedRows' = [mergedRows EXCEPT ![r] = 0]
    /\ UNCHANGED <<rootExists, dbDirs, hasMeta, made_by, BUILD_LOCK, bname, created_dir,
                   response, workerFailed, docFailed, processed_pdfs, queryVars, embedVars, stageVars>>

\* Lines 75-80: pickle.dump of the metadata list.
build_faiss_index_write_metadata(r) ==
    /\ bpc[r] = "index_meta"
    /\ \E raises \in BOOLEAN :
         IF raises
         THEN /\ build_error' = [build_error EXCEPT ![r] = TRUE]
              /\ UNCHANGED hasMeta
         ELSE /\ hasMeta' = hasMeta \cup ({bname[r]} \cap dbDirs)
              /\ UNCHANGED build_error
    /\ bpc' = [bpc EXCEPT ![r] = "release"]
    /\ UNCHANGED <<rootExists, dbDirs, hasIndex, made_by, BUILD_LOCK, bname, created_dir,
                   response, mergedRows, workerFailed, docFailed, processed_pdfs, queryVars, embedVars, stageVars>>

\* ------------------------------------------------------- web/app.py
\* Line 207, the finally clause.
build_database_release(r) ==
    /\ bpc[r] = "release"
    /\ BUILD_LOCK' = FALSE
    /\ bpc' = [bpc EXCEPT ![r] = "finish"]
    /\ UNCHANGED <<fsVars, bname, created_dir, build_error, response,
                   mergedRows, workerFailed, docFailed, processed_pdfs, queryVars, embedVars, stageVars>>

\* Lines 209-228: roll back and report the failure, or report success.
build_database_finish(r) ==
    /\ bpc[r] = "finish"
    /\ IF build_error[r]
       THEN /\ Returned(r, "failure")
            /\ dbDirs' = IF created_dir[r] THEN rmtree(r) ELSE dbDirs
            /\ hasIndex' = hasIndex \cap dbDirs'
            /\ hasMeta' = hasMeta \cap dbDirs'
            /\ made_by' = [d \in DbNames |->
                              IF d \in dbDirs' THEN left_behind(r)[d] ELSE "none"]
            /\ processed_pdfs' =
                  IF created_dir[r] /\ processed_pdfs[r] \in {"split", "target"}
                  THEN [processed_pdfs EXCEPT ![r] = "removed"]
                  ELSE processed_pdfs
       ELSE /\ Returned(r, "success")
            /\ made_by' = left_behind(r)
            /\ UNCHANGED <<dbDirs, hasIndex, hasMeta, processed_pdfs>>
    /\ UNCHANGED <<rootExists, BUILD_LOCK, queryVars, embedVars, stageVars>>

\* ----------------------------- web/app.py home, web/rag_server.py run_rag
\* What home renders without a generated answer: the kind of the message.
Message(kind) == [answer |-> kind, text |-> <<>>, citations |-> {}]
\* What home renders for the answer and the citation map that run_rag returned.
Answer(text, cites) ==
    [answer |-> "answered", text |-> text, citations |-> cites]
NoAnswer == Message("none")

\* The names a query can post: those of directories, and -1 for a name such
\* as "../x" that resolves outside DB_BASE_PATH.
QueryNames == DbNames \cup {-1}
\* load_db lines 73-75: the resolved path lies under DB_BASE_PATH.
inside_root(db) == db \in DbNames

\* load_db lines 79-82: the two exists() checks.
load_db_index_only(db) == db \in hasIndex
load_db_artifacts_present(db) == db \in hasIndex /\ db \in hasMeta

\* call_openai_chat, the default of its retries parameter.
retries == 3
\* One attempt of lines 92-97: it raises (no credential, service failure, a
\* reply without content), or it returns the stripped content.
AttemptOutcomes == {"raise", "empty", "text"}

\* call_openai_chat lines 90-101 over the outcomes of its attempts, and a
\* variant that lets the failure of the last attempt out.
RECURSIVE chat_from(_, _)
chat_from(outcomes, k) ==
    IF k > retries THEN "None"
    ELSE IF outcomes[k] = "raise" THEN chat_from(outcomes, k + 1)
    ELSE outcomes[k]
call_openai_chat_reraise(outcomes) ==
    IF \A k \in 1..retries : outcomes[k] = "raise" THEN "raised"
    ELSE chat_from(outcomes, 1)
call_openai_chat(outcomes) == chat_from(outcomes, 1)

\* The credentials a client can post to /settings/api-key.
Keys == {"k1", "k2"}

\* The outcomes the attempts of one call can have: _get_openai_client raises
\* in every attempt while no client is cached and OPENAI_API_KEY is not set.
CallOutcomes ==
    IF _client # "None" \/ OPENAI_API_KEY # "unset"
    THEN [1..retries -> AttemptOutcomes]
    ELSE {[k \in 1..retries |-> "raise"]}
\* _get_openai_client lines 54-59 run without interruption: the cached client
\* after the attempts of one call.
client_after_call ==
    IF _client = "None" THEN (IF OPENAI_API_KEY = "unset" THEN "None"
                              ELSE OPENAI_API_KEY)
    ELSE _client
\* What one call can return.
CallResults == {call_openai_chat(outcomes) : outcomes \in CallOutcomes}

\* Line 118, "call_openai_chat(...) or user_input", and the call alone.
rewrite_unguarded(result) ==
    IF result = "text" THEN "rewritten" ELSE "None"
rewrite_or_user_input(result) ==
    IF result \in {"None", "empty"} THEN "user_input" ELSE "rewritten"

\* Numerals as they stand in an answer: sequences of decimal digits.
D1 == <<1>>
D2 == <<2>>
D5 == <<5>>
D01 == <<0, 1>>

\* The generated answers told apart: each is the sequence of its bracketed
\* groups, a group the sequence of its numerals.  No group; "[1]" and
\* "[2, 5]"; "[01]".
Replies == {<<>>,
            <<<<D1>>, <<D2, D5>>>>,
            <<<<D01>>>>}

\* str(rank + 1), line 129: the decimal numeral of n without leading zeros.
RECURSIVE str(_)
str(n) == IF n < 10 THEN <<n>> ELSE Append(str(n \div 10), n % 10)

TOP_K == 15
\* Line 129, the citation of the slot at enumerate's rank, and a numbering
\* that counts the entries made so far.
citation_counted(slot) == str(Len(retrieved_chunks) + 1)
citation(slot) == str(slot + 1)
\* Line 127: the 1-based positions of the slots of ids that name a row.
found(ids) == {p \in 1..Len(ids) : ids[p] >= 0}
\* Line 122 for a flat index of ntotal rows: the nearest rows, then -1.
index_search == [p \in 1..TOP_K |-> IF p <= ntotal THEN p - 1 ELSE -1]
\* Lines 122-131: the ranks with a lookup entry, which are 1..min(TOP_K,
\* ntotal).
Ranks_found == found(index_search)
Doi(rank) == <<"doi", rank>>
NA == <<"N/A">>

\* Lines 148-152: the numerals of all groups, split at "," and stripped.
cited_numbers(answer) ==
    UNION {Range(answer[g]) : g \in 1..Len(answer)}

\* Lines 154-157, chunk_lookup.get(num): the key is the numeral itself.
lookup(num) ==
    IF \E r \in Ranks_found : str(r) = num
    THEN Doi(CHOOSE r \in Ranks_found : str(r) = num)
    ELSE NA

citation_dict(answer) == {<<num, lookup(num)>> : num \in cited_numbers(answer)}

\* Lines 160-167: the record of one answered query.
LogRecord(q) ==
    [input_query |-> q, rewritten_query |-> refined_prompt[q],
     final_answer |-> reply[q], citations |-> citation_dict(reply[q])]

RagIdle ==
    /\ OPENAI_API_KEY = "unset"
    /\ _client = "None"
    /\ api_key = [q \in Queries |-> "none"]
    /\ client = [q \in Queries |-> "none"]
    /\ refined_prompt = [q \in Queries |-> "none"]
    /\ query_vec = [q \in Queries |-> "none"]
    /\ reply = [q \in Queries |-> <<>>]
    /\ now = 0
    /\ logs = {}

QueryIdle ==
    /\ qpc = [q \in Queries |-> "idle"]
    /\ qdb = [q \in Queries |-> 0]
    /\ qresult = [q \in Queries |-> NoAnswer]
    /\ apiListing = <<>>
    /\ RagIdle

QueryInit == QueryIdle /\ ntotal = 1

\* /api/databases, lines 65-67.
api_databases ==
    /\ apiListing' = list_databases
    /\ UNCHANGED <<fsVars, buildVars, qpc, qdb, qresult, ragVars, clientVars, embedVars,
                   stageVars>>

\* home returns: the locals of run_rag are gone and the page is rendered.
Rendered(q, result) ==
    /\ qpc' = [qpc EXCEPT ![q] = "idle"]
    /\ qresult' = [qresult EXCEPT ![q] = result]
    /\ refined_prompt' = [refined_prompt EXCEPT ![q] = "none"]
    /\ query_vec' = [query_vec EXCEPT ![q] = "none"]
    /\ reply' = [reply EXCEPT ![q] = <<>>]

\* home lines 247-249: an exception of run_rag becomes the degraded answer;
\* without the handler it leaves home.
Unable_uncaught == Message("raised")
Unable == Message("unable")

\* home lines 233-243 for a POST naming the database db: the name is looked
\* up in the list that line 235 got from list_databases().
home_post(q) ==
    /\ qpc[q] = "idle"
    /\ \E db \in QueryNames :
         /\ qdb' = [qdb EXCEPT ![q] = db]
         /\ IF db \in Range(list_databases)
            THEN /\ qpc' = [qpc EXCEPT ![q] = "load_check"]
                 /\ qresult' = [qresult EXCEPT ![q] = NoAnswer]
            ELSE /\ qpc' = [qpc EXCEPT ![q] = "idle"]
                 /\ qresult' = [qresult EXCEPT ![q] =
                        Message("not_available")]
    /\ UNCHANGED <<fsVars, buildVars, apiListing, ragVars, clientVars, embedVars,
                   stageVars>>

\* run_rag line 108, load_db lines 73-82; home lines 247-249 catch the raise.
load_db_check(q) ==
    /\ qpc[q] = "load_check"
    /\ IF inside_root(qdb[q]) /\ load_db_artifacts_present(qdb[q])
       THEN /\ qpc' = [qpc EXCEPT ![q] = "load_read"]
            /\ UNCHANGED qresult
       ELSE /\ qpc' = [qpc EXCEPT ![q] = "idle"]
            /\ qresult' = [qresult EXCEPT ![q] = Unable]
    /\ UNCHANGED <<fsVars, buildVars, qdb, apiListing, ragVars, clientVars, embedVars,
                   stageVars>>

\* load_db lines 84-87: faiss.read_index and pickle.load of the two files.
load_db_read(q) ==
    /\ qpc[q] = "load_read"
    /\ IF qdb[q] \in hasIndex /\ qdb[q] \in hasMeta
       THEN /\ qpc' = [qpc EXCEPT ![q] = "rewrite"]
            /\ UNCHANGED qresult
       ELSE /\ qpc' = [qpc EXCEPT ![q] = "idle"]
            /\ qresult' = [qresult EXCEPT ![q] = Unable]
    /\ UNCHANGED <<fsVars, buildVars, qdb, apiListing, ragVars, clientVars, embedVars,
                   stageVars>>

\* run_rag lines 110-118: the rewrite call with its attempts and the fallback.
run_rag_rewrite(q) ==
    /\ qpc[q] = "rewrite"
    /\ \E result \in CallResults :
         IF result = "raised"
         THEN Rendered(q, Unable)
         ELSE /\ refined_prompt' = [refined_prompt EXCEPT ![q] =
                     rewrite_or_user_input(result)]
              /\ qpc' = [qpc EXCEPT ![q] = "search"]
              /\ UNCHANGED <<qresult, query_vec, reply>>
    /\ _client' = client_after_call
    /\ UNCHANGED <<fsVars, buildVars, qdb, apiListing, OPENAI_API_KEY, ntotal,
                   now, logs, clientVars, embedVars, stageVars>>

\* run_rag lines 120-131: the refined prompt is encoded and searched; encoding
\* None, or a failure of the model or the index, raises to home.
run_rag_search(q) ==
    /\ qpc[q] = "search"
    /\ \E raises \in BOOLEAN :
         IF raises \/ refined_prompt[q] = "None"
         THEN Rendered(q, Unable)
         ELSE /\ query_vec' = [query_vec EXCEPT ![q] = refined_prompt[q]]
              /\ qpc' = [qpc EXCEPT ![q] = "answer"]
              /\ UNCHANGED <<qresult, refined_prompt, reply>>
    /\ UNCHANGED <<fsVars, buildVars, qdb, apiListing, OPENAI_API_KEY, _client, ntotal,
                   now, logs, clientVars, embedVars, stageVars>>

\* run_rag lines 133-157: the answer call with its attempts; without a reply
\* the sentinel is returned at line 145, else the citations are resolved.
run_rag_answer(q) ==
    /\ qpc[q] = "answer"
    /\ \E result \in CallResults :
         IF result = "raised"
         THEN Rendered(q, Unable)
         ELSE IF result = "None"
         THEN Rendered(q, Message("error_generating"))
         ELSE /\ \E text \in Replies :
                   /\ (result = "empty" => text = <<>>)
                   /\ reply' = [reply EXCEPT ![q] = text]
              /\ qpc' = [qpc EXCEPT ![q] = "log"]
              /\ UNCHANGED <<qresult, refined_prompt, query_vec>>
    /\ _client' = client_after_call
    /\ UNCHANGED <<fsVars, buildVars, qdb, apiListing, OPENAI_API_KEY, ntotal,
                   now, logs, clientVars, embedVars, stageVars>>

\* run_rag lines 171-173, the files of the log directory after open(.., "w")
\* of the file named by the second: the file is made or emptied.  After the
\* write it holds the record of q; line 173 left out, there is no write.
log_file_opened == {p \in logs : p[1] # now}
log_file_unwritten(q) == logs
log_file_written(q) == log_file_opened \cup {<<now, LogRecord(q)>>}

\* run_rag lines 159-175: mkdir of the log directory, the file named by the
\* second is opened with "w" and written, and the answer is returned; an
\* OSError of one of these, before or after the file is opened, leaves
\* run_rag and home renders the degraded answer.
run_rag_log(q) ==
    /\ qpc[q] = "log"
    /\ \E raises \in BOOLEAN :
         IF raises
         THEN /\ Rendered(q, Unable)
              /\ \E opened \in BOOLEAN :
                   logs' = IF opened THEN log_file_opened ELSE logs
         ELSE /\ logs' = log_file_written(q)
              /\ Rendered(q, Answer(reply[q], citation_dict(reply[q])))
    /\ UNCHANGED <<fsVars, buildVars, qdb, apiListing, OPENAI_API_KEY, _client, ntotal,
                   now, clientVars, embedVars, stageVars>>

\* _get_openai_client lines 54-57 in thread q: the cached client is returned,
\* or the key is read and, when there is none, RuntimeError ends the attempt.
_get_openai_client_check(q) ==
    /\ api_key[q] = "none"
    /\ IF _client # "None"
       THEN /\ client' = [client EXCEPT ![q] = _client]
            /\ UNCHANGED api_key
       ELSE IF OPENAI_API_KEY = "unset"
       THEN /\ client' = [client EXCEPT ![q] = "raised"]
            /\ UNCHANGED api_key
       ELSE /\ api_key' = [api_key EXCEPT ![q] = OPENAI_API_KEY]
            /\ client' = [client EXCEPT ![q] = "none"]
    /\ UNCHANGED <<fsVars, buildVars, qpc, qdb, qresult, apiListing, ragVars,
                   embedVars, stageVars>>

\* _get_openai_client lines 58-59 in thread q: the client built from the key
\* that line 55 read is cached and returned.
_get_openai_client_build(q) ==
    /\ api_key[q] # "none"
    /\ _client' = api_key[q]
    /\ client' = [client EXCEPT ![q] = api_key[q]]
    /\ api_key' = [api_key EXCEPT ![q] = "none"]
    /\ UNCHANGED <<fsVars, buildVars, qpc, qdb, qresult, apiListing,
                   OPENAI_API_KEY, ntotal, refined_prompt, query_vec, reply,
                   now, logs, embedVars, stageVars>>

\* reset_openai_client, lines 46-49: the value of _client after it.
reset_openai_client == "None"

\* /settings/api-key, lines 70-91: the key is set (apiKey a credential) or
\* cleared, and the cached client is dropped.
update_api_key ==
    /\ \E apiKey \in Keys \cup {"unset"} : OPENAI_API_KEY' = apiKey
    /\ _client' = reset_openai_client
    /\ UNCHANGED <<fsVars, buildVars, qpc, qdb, qresult, apiListing, ntotal,
                   refined_prompt, query_vec, reply, now, logs, clientVars,
                   embedVars, stageVars>>

\* The wall clock reaches the next second.
clock_tick ==
    /\ now + 1 \in Seconds
    /\ now' = now + 1
    /\ UNCHANGED <<fsVars, buildVars, qpc, qdb, qresult, apiListing,
                   OPENAI_API_KEY, _client, ntotal, refined_prompt, query_vec,
                   reply, logs, clientVars, embedVars, stageVars>>

\* ------------------------------------------------------------------ Spec
NoArgs == [num_workers |-> 0, device |-> "cpu", available |-> 0]

EmbedIdle ==
    /\ embed_args = NoArgs
    /\ entries = <<>>
    /\ num_workers = 0
    /\ shards = <<>>
    /\ processes = <<>>
    /\ shardFile = <<>>
    /\ final_output = NoFile
    /\ epc = "off"
    /\ eidx = 0
    /\ outOfOrder = FALSE

\* build_faiss_index is not running on its own.
IndexIdle ==
    /\ embedding_file = <<>>
    /\ embeddings = <<>>
    /\ metadata = <<>>
    /\ index_file = NoFile
    /\ metadata_file = NoFile
    /\ ipc = "off"

\* chunk_texts is not running on its own.
ChunkIdle ==
    /\ txt_files = <<>>
    /\ join_cost = 0
    /\ min_tokens = 0
    /\ overlap = 0
    /\ pending = {}
    /\ cfile = "none"
    /\ ci = 0
    /\ file_chunks = <<>>
    /\ iterations = 0
    /\ out_file = <<>>

\* No search is examined on its own.
SearchIdle ==
    /\ I = <<>>
    /\ slot_rank = 0
    /\ retrieved_chunks = <<>>
    /\ chunk_lookup = {}

CallIdle ==
    /\ cpc = [q \in Queries |-> "idle"]
    /\ attempt = [q \in Queries |-> 0]
    /\ call_result = [q \in Queries |-> "pending"]
    /\ returned = [q \in Queries |-> <<>>]
    /\ attempts_made = [q \in Queries |-> 0]
    /\ slept = [q \in Queries |-> 0]

StagesIdle == IndexIdle /\ ChunkIdle /\ SearchIdle /\ CallIdle

Init == FsInit /\ BuildInit /\ QueryInit /\ EmbedIdle /\ StagesIdle

BuildStep(r) ==
    \/ build_database_validate(r)
    \/ build_database_prepare(r)
    \/ build_database_acquire(r)
    \/ parse_pipeline_args(r)
    \/ convert_pdfs(r)
    \/ organize_library(r)
    \/ extract_dois(r)
    \/ chunk_texts(r)
    \/ embed_chunks_stage(r)
    \/ build_faiss_index_write_index(r)
    \/ build_faiss_index_write_metadata(r)
    \/ build_database_release(r)
    \/ build_database_finish(r)

QueryStep(q) ==
    \/ home_post(q)
    \/ load_db_check(q)
    \/ load_db_read(q)
    \/ run_rag_rewrite(q)
    \/ run_rag_search(q)
    \/ run_rag_answer(q)

\* Build requests of concurrent clients.
Next == \E r \in BuildReqs : BuildStep(r)

Spec == Init /\ [][Next]_vars

\* Queries and listings while one client builds databases.  No API key is
\* configured, so no query gets as far as the audit log.
QueryBuildReqs == {"b1"}
QueryReqs == {"q1"}

NextQuery ==
    \/ \E r \in QueryBuildReqs : BuildStep(r)
    \/ \E q \in QueryReqs : QueryStep(q)
    \/ api_databases

SpecQuery == Init /\ [][NextQuery]_vars

\* Concurrent queries against the databases in place, the key being set and
\* cleared and the clock running.
InitRag ==
    /\ FsInit
    /\ BuildInit
    /\ QueryIdle
    /\ ntotal = MaxIndexRows
    /\ EmbedIdle
    /\ StagesIdle

NextRag ==
    \/ \E q \in Queries : QueryStep(q)
    \/ \E q \in Queries : run_rag_log(q)
    \/ update_api_key
    \/ clock_tick

SpecRag == InitRag /\ [][NextRag]_vars

\* Threads of the server inside _get_openai_client, statement by statement,
\* while the key is set and cleared.
NextClient ==
    \/ \E q \in Queries : _get_openai_client_check(q)
    \/ \E q \in Queries : _get_openai_client_build(q)
    \/ update_api_key

SpecClient == InitRag /\ [][NextClient]_vars

\* ------------------------------ pipelinefiles/embed_chunks_multigpu.py
\* All sequences over S of length at most n.
SeqsUpTo(S, n) == UNION {[1..k -> S] : k \in 0..n}

Ranks == 0..(num_workers - 1)

\* Line 79-80: the record with its embedding, as one line of a shard file.
EmbeddedLine(entry) == <<entry, "embedding">>

\* The input file of one run of embed_chunks; the serving process is idle.
InitEmbed ==
    /\ rootExists = FALSE
    /\ dbDirs = {}
    /\ hasIndex = {}
    /\ hasMeta = {}
    /\ made_by = [d \in DbNames |-> "none"]
    /\ BuildInit
    /\ QueryInit
    /\ StagesIdle
    /\ embed_args = NoArgs
    /\ entries \in SeqsUpTo(1..MaxRecordValue, MaxEntries)
    /\ num_workers = 0
    /\ shards = <<>>
    /\ processes = <<>>
    /\ shardFile = <<>>
    /\ final_output = NoFile
    /\ epc = "start"
    /\ eidx = 0
    /\ outOfOrder = FALSE

\* The values of --num-workers (type=int, default 4): any integer.
Requests == (-1)..MaxWorkers

\* Lines 108-126 for a non-empty input: the worker count, the shards, and the
\* processes and shard files there will be.
shard_entries(requested, device, available) ==
    LET W == worker_count(requested, device, available, Len(entries)) IN
    /\ num_workers' = W
    /\ shards' = _chunkify(entries, W)
    /\ processes' = [k \in 0..(W - 1) |-> "unstarted"]
    /\ shardFile' = [k \in 0..(W - 1) |-> NoFile]
    /\ epc' = "spawn"

\* Lines 94-126: the guards, the empty input, the worker count, the shards.
embed_chunks_start ==
    /\ epc = "start"
    /\ \E raises \in BOOLEAN :
         IF raises
         THEN /\ epc' = "raised"
              /\ UNCHANGED <<num_workers, shards, processes, shardFile,
                             final_output>>
         ELSE IF entries = <<>>
         THEN /\ final_output' = <<>>
              /\ epc' = "returned"
              /\ UNCHANGED <<num_workers, shards, processes, shardFile>>
         ELSE \E requested \in Requests, device \in {"gpu", "cpu"},
                 available \in 0..MaxWorkers :
                /\ shard_entries(requested, device, available)
                /\ UNCHANGED final_output
    /\ UNCHANGED <<fsVars, buildVars, queryVars, stageVars, embed_args, entries, eidx, outOfOrder>>

\* Lines 130-137: one turn of the spawn loop.
embed_chunks_spawn ==
    /\ epc = "spawn"
    /\ processes' = [processes EXCEPT ![eidx] = "running"]
    /\ IF eidx + 1 = num_workers
       THEN epc' = "join" /\ eidx' = 0
       ELSE eidx' = eidx + 1 /\ UNCHANGED epc
    /\ UNCHANGED <<fsVars, buildVars, queryVars, stageVars, embed_args, entries, num_workers, shards,
                   shardFile, final_output, outOfOrder>>

\* _embed_worker lines 57-60: the model is loaded and the shard file opened.
_embed_worker_open(k) ==
    /\ processes[k] = "running"
    /\ shardFile[k] = NoFile
    /\ shardFile' = [shardFile EXCEPT ![k] = <<>>]
    /\ UNCHANGED <<fsVars, buildVars, queryVars, stageVars, embed_args, entries, num_workers, shards,
                   processes, final_output, epc, eidx, outOfOrder>>

\* _embed_worker lines 61-80: the next record of the shard is written.
_embed_worker_write(k) ==
    /\ processes[k] = "running"
    /\ shardFile[k] # NoFile
    /\ Len(shardFile[k]) < Len(shards[k])
    /\ shardFile' = [shardFile EXCEPT ![k] =
           Append(@, EmbeddedLine(shards[k][Len(@) + 1]))]
    /\ UNCHANGED <<fsVars, buildVars, queryVars, stageVars, embed_args, entries, num_workers, shards,
                   processes, final_output, epc, eidx, outOfOrder>>

Terminated(k, code) ==
    /\ processes' = [processes EXCEPT ![k] = code]
    /\ outOfOrder' = (outOfOrder \/ \E j \in 0..(k - 1) : processes[j] = "running")

\* _embed_worker returns: the process exits with code 0.
_embed_worker_exit(k) ==
    /\ processes[k] = "running"
    /\ shardFile[k] # NoFile
    /\ Len(shardFile[k]) = Len(shards[k])
    /\ Terminated(k, "exit0")
    /\ UNCHANGED <<fsVars, buildVars, queryVars, stageVars, embed_args, entries, num_workers, shards,
                   shardFile, final_output, epc, eidx>>

\* _embed_worker raises or is killed, at any line: a nonzero exit code.
_embed_worker_fail(k) ==
    /\ processes[k] = "running"
    /\ Terminated(k, "exit1")
    /\ UNCHANGED <<fsVars, buildVars, queryVars, stageVars, embed_args, entries, num_workers, shards,
                   shardFile, final_output, epc, eidx>>

\* process.join() of rank k returns, line 140: the process has terminated.  A
\* join that gives up waiting returns while the process runs.
join_gives_up(k) == processes[k] # "unstarted"
join(k) == processes[k] \in {"exit0", "exit1"}

\* Lines 139-142: process.join() of the next rank; after the last, the final
\* file is opened for writing.
embed_chunks_join ==
    /\ epc = "join"
    /\ join(eidx)
    /\ IF eidx + 1 = num_workers
       THEN epc' = "merge" /\ eidx' = 0 /\ final_output' = <<>>
       ELSE eidx' = eidx + 1 /\ UNCHANGED <<epc, final_output>>
    /\ UNCHANGED <<fsVars, buildVars, queryVars, stageVars, embed_args, entries, num_workers, shards,
                   processes, shardFile, outOfOrder>>

\* The rank whose shard file the merge loop copies at index i.
merge_rank_reversed(i) == num_workers - 1 - i
merge_rank(i) == i

\* Lines 143-150: one turn of the merge loop.
embed_chunks_merge ==
    /\ epc = "merge"
    /\ final_output' = IF shardFile[merge_rank(eidx)] # NoFile
                       THEN final_output \o shardFile[merge_rank(eidx)]
                       ELSE final_output
    /\ IF eidx + 1 = num_workers
       THEN epc' = "returned" /\ eidx' = 0
       ELSE eidx' = eidx + 1 /\ UNCHANGED epc
    /\ UNCHANGED <<fsVars, buildVars, queryVars, stageVars, embed_args, entries, num_workers, shards,
                   processes, shardFile, outOfOrder>>

NextEmbed ==
    \/ embed_chunks_start
    \/ embed_chunks_spawn
    \/ \E k \in Ranks : _embed_worker_open(k)
    \/ \E k \in Ranks : _embed_worker_write(k)
    \/ \E k \in Ranks : _embed_worker_exit(k)
    \/ \E k \in Ranks : _embed_worker_fail(k)
    \/ embed_chunks_join
    \/ embed_chunks_merge

SpecEmbed == InitEmbed /\ [][NextEmbed]_vars

\* embed_chunks called with every --num-workers, --device and device count on
\* a non-empty chunk file, up to the start of its workers.
InitWorkers ==
    /\ rootExists = FALSE
    /\ dbDirs = {}
    /\ hasIndex = {}
    /\ hasMeta = {}
    /\ made_by = [d \in DbNames |-> "none"]
    /\ BuildInit
    /\ QueryInit
    /\ StagesIdle
    /\ embed_args \in [num_workers : Requests, device : {"gpu", "cpu"},
                        available : 0..MaxWorkers]
    /\ entries \in SeqsUpTo(1..MaxRecordValue, MaxEntries) \ {<<>>}
    /\ num_workers = 0
    /\ shards = <<>>
    /\ processes = <<>>
    /\ shardFile = <<>>
    /\ final_output = NoFile
    /\ epc = "start"
    /\ eidx = 0
    /\ outOfOrder = FALSE

\* Lines 108-126 for the arguments of this call; line 117 sets device to
\* "cpu" when no device is found.
embed_chunks_count ==
    /\ epc = "start"
    /\ shard_entries(embed_args.num_workers, embed_args.device,
                     embed_args.available)
    /\ embed_args' = [embed_args EXCEPT !.device =
           IF @ = "gpu" /\ embed_args.available = 0 THEN "cpu" ELSE @]
    /\ UNCHANGED <<fsVars, buildVars, queryVars, stageVars, entries,
                   final_output, eidx, outOfOrder>>

NextWorkers ==
    \/ embed_chunks_count
    \/ embed_chunks_spawn

SpecWorkers == InitWorkers /\ [][NextWorkers]_vars

\* ---------------------------------- pipelinefiles/build_faiss_index.py
\* The serving process and embed_chunks are idle.
ServerIdle ==
    /\ rootExists = FALSE
    /\ dbDirs = {}
    /\ hasIndex = {}
    /\ hasMeta = {}
    /\ made_by = [d \in DbNames |-> "none"]
    /\ BuildInit
    /\ QueryInit

\* Artifacts left by an earlier run at the same paths.
OldArtifact == <<"old">>

\* Line 47: the vector of one line.  Lines 49-58: its summary.
Vector(item) == <<"embedding", item>>
Summary(item) == <<"summary", item>>

\* Line 49, metadata.append, and an append that keeps one copy of a summary.
metadata_append_unique(md, item) ==
    IF Summary(item) \in Range(md) THEN md ELSE Append(md, Summary(item))
metadata_append(md, item) == Append(md, Summary(item))

\* Line 60, "not embeddings", and a check that never fires.
no_embeddings_unchecked(vectors) == FALSE
no_embeddings(vectors) == vectors = <<>>

\* One run of build_faiss_index over a merged file of records 1..MaxRecordValue;
\* 0 is a line that json.loads or a field lookup rejects (a line cut short).
InitIndex ==
    /\ ServerIdle
    /\ EmbedIdle
    /\ ChunkIdle
    /\ SearchIdle
    /\ CallIdle
    /\ embedding_file \in SeqsUpTo(0..MaxRecordValue, MaxEntries)
    /\ embeddings = <<>>
    /\ metadata = <<>>
    /\ index_file \in {NoFile, OldArtifact}
    /\ metadata_file = index_file
    /\ ipc = "read"

\* Lines 44-58: one turn of the read loop.
build_faiss_index_read ==
    /\ ipc = "read"
    /\ Len(embeddings) < Len(embedding_file)
    /\ LET item == embedding_file[Len(embeddings) + 1] IN
         IF item = 0
         THEN /\ ipc' = "raised"
              /\ UNCHANGED <<embeddings, metadata>>
         ELSE /\ embeddings' = Append(embeddings, Vector(item))
              /\ metadata' = metadata_append(metadata, item)
              /\ UNCHANGED ipc
    /\ UNCHANGED <<fsVars, buildVars, queryVars, embedVars, chunkVars, searchVars, callVars, embedding_file,
                   index_file, metadata_file>>

\* Lines 60-74 after the last line: ValueError on no embeddings, else the
\* matrix is stacked, added to the index and faiss.write_index writes it.
build_faiss_index_write ==
    /\ ipc = "read"
    /\ Len(embeddings) = Len(embedding_file)
    /\ IF no_embeddings(embeddings)
       THEN /\ ipc' = "raised"
            /\ UNCHANGED index_file
       ELSE \E raises \in BOOLEAN :
              IF raises
              THEN ipc' = "raised" /\ UNCHANGED index_file
              ELSE ipc' = "dump" /\ index_file' = embeddings
    /\ UNCHANGED <<fsVars, buildVars, queryVars, embedVars, chunkVars, searchVars, callVars, embedding_file,
                   embeddings, metadata, metadata_file>>

\* Lines 75-80: pickle.dump(metadata) and the return.
build_faiss_index_dump ==
    /\ ipc = "dump"
    /\ \E raises \in BOOLEAN :
         IF raises
         THEN ipc' = "raised" /\ UNCHANGED metadata_file
         ELSE ipc' = "returned" /\ metadata_file' = metadata
    /\ UNCHANGED <<fsVars, buildVars, queryVars, embedVars, chunkVars, searchVars, callVars, embedding_file,
                   embeddings, metadata, index_file>>

NextIndex ==
    \/ build_faiss_index_read
    \/ build_faiss_index_write
    \/ build_faiss_index_dump

SpecIndex == InitIndex /\ [][NextIndex]_vars

\* ------------------------------------- pipelinefiles/chunker_updated.py
\* sorted(txt_dir.glob("*.txt")), line 131.
Filenames == {"a.txt", "b.txt"}

RECURSIVE SumLens(_, _)
SumLens(f, S) ==
    IF S = {} THEN 0
    ELSE LET x == CHOOSE y \in S : TRUE IN Len(f[x]) + SumLens(f, S \ {x})

\* Lines 46-53: j when the inner loop ends, entered at j with token_count
\* count; paras[j + 1] is paragraphs[j].  First a loop that breaks only above
\* the minimum.
RECURSIVE inner_loop_above(_, _, _, _)
inner_loop_above(paras, j, count, minTokens) ==
    IF j >= Len(paras) THEN j
    ELSE IF count + paras[j + 1] > minTokens THEN j + 1
    ELSE inner_loop_above(paras, j + 1, count + paras[j + 1], minTokens)
RECURSIVE inner_loop(_, _, _, _)
inner_loop(paras, j, count, minTokens) ==
    IF j >= Len(paras) THEN j
    ELSE IF count + paras[j + 1] >= minTokens THEN j + 1
    ELSE inner_loop(paras, j + 1, count + paras[j + 1], minTokens)

\* A window that closes after its first paragraph, and the window of the code.
window_end_single(paras, i, minTokens) == i + 1
window_end(paras, i, minTokens) == inner_loop(paras, i, 0, minTokens)

\* Line 58, the step without the floor of 1, and the step without the
\* overlap.
step_unfloored(j, i, ov) == Max2(0, j - i - ov)
step_without_overlap(j, i, ov) == Max2(1, j - i)
step(j, i, ov) == Max2(1, j - i - ov)

RECURSIVE SumFromTo(_, _, _)
SumFromTo(paras, first, last) ==
    IF first > last THEN 0
    ELSE paras[first + 1] + SumFromTo(paras, first + 1, last)

\* A joint of " ".join puts a space before the first word of the next
\* paragraph; with the space that word can encode to one token more than it
\* does at the start of a text, to as many, or to one less.
JoinCosts == {-1, 0, 1}

\* Lines 55-56, len(enc.encode(" ".join(chunk))) for paragraphs i..j-1, and
\* the sum of the counts of the paragraphs instead.
actual_tokens_summed(paras, i, j) == SumFromTo(paras, i, j - 1)
actual_tokens(paras, i, j) ==
    SumFromTo(paras, i, j - 1) + (j - i - 1) * join_cost

\* Lines 54-57: the chunk of paragraphs i..j-1 with its recorded count.
Chunk(paras, i, j) ==
    [first |-> i, last |-> j - 1, token_count |-> actual_tokens(paras, i, j)]

\* Line 94, idx of enumerate(chunks), and a numbering that starts at 1.
chunk_id_one_based(idx) == idx + 1
chunk_id(idx) == idx

\* Lines 91-101: the records of one file.
records_of(filename, chunkList) ==
    [k \in 1..Len(chunkList) |->
        [source_file |-> filename, chunk_id |-> chunk_id(k - 1),
         text |-> chunkList[k]]]

\* Line 131, the files of the text directory with the token counts of their
\* paragraphs: the second file is a short one, of at most one paragraph.
TextFiles ==
    {[f \in Filenames |-> IF f = "a.txt" THEN a ELSE b] :
        a \in SeqsUpTo(1..MaxParaTokens, MaxParagraphs),
        b \in SeqsUpTo(1..MaxParaTokens, 1)}

\* chunk_texts over the files of the text directory, the futures taken in the
\* order in which they complete.
InitChunk ==
    /\ ServerIdle
    /\ EmbedIdle
    /\ IndexIdle
    /\ SearchIdle
    /\ CallIdle
    /\ txt_files \in TextFiles
    /\ SumLens(txt_files, Filenames) <= MaxParagraphs
    /\ join_cost = 0
    /\ min_tokens \in 0..MaxMinTokens
    /\ overlap \in 0..MaxOverlap
    /\ pending = Filenames
    /\ cfile = "none"
    /\ ci = 0
    /\ file_chunks = <<>>
    /\ iterations = 0
    /\ out_file = <<>>

\* _process_file lines 72-80 for one submitted file: partition_text gives the
\* paragraphs, or raises and lines 161-162 of chunk_texts drop the file.
process_file_start(f) ==
    /\ cfile = "none"
    /\ f \in pending
    /\ \E raises \in BOOLEAN :
         IF raises
         THEN pending' = pending \ {f} /\ UNCHANGED cfile
         ELSE cfile' = f /\ UNCHANGED pending
    /\ ci' = 0
    /\ file_chunks' = <<>>
    /\ iterations' = 0
    /\ UNCHANGED <<fsVars, buildVars, queryVars, embedVars, indexVars, searchVars, callVars,
                   txt_files, join_cost, min_tokens, overlap, out_file>>

\* Lines 42-59: one turn of the outer loop.
group_paragraphs_by_min_tokens ==
    /\ cfile # "none"
    /\ ci < Len(txt_files[cfile])
    /\ LET paras == txt_files[cfile]
           j == window_end(paras, ci, min_tokens)
       IN /\ file_chunks' = IF j > ci
                               THEN Append(file_chunks, Chunk(paras, ci, j))
                               ELSE file_chunks
          /\ ci' = ci + step(j, ci, overlap)
    /\ iterations' = iterations + 1
    /\ UNCHANGED <<fsVars, buildVars, queryVars, embedVars, indexVars, searchVars, callVars,
                   txt_files, join_cost, min_tokens, overlap, pending, cfile, out_file>>

\* Lines 60 and 88-101, then chunk_texts lines 154-160: the records of the
\* file are written to the chunk file.
process_file_return ==
    /\ cfile # "none"
    /\ ci >= Len(txt_files[cfile])
    /\ out_file' = out_file \o records_of(cfile, file_chunks)
    /\ pending' = pending \ {cfile}
    /\ cfile' = "none"
    /\ UNCHANGED <<fsVars, buildVars, queryVars, embedVars, indexVars, searchVars, callVars,
                   txt_files, join_cost, min_tokens, overlap, ci, file_chunks, iterations>>

NextChunk ==
    \/ \E f \in Filenames : process_file_start(f)
    \/ group_paragraphs_by_min_tokens
    \/ process_file_return

SpecChunk == InitChunk /\ [][NextChunk]_vars

\* chunk_texts over one file with paragraphs and one without, for every cost
\* of a joint.
InitTokens ==
    /\ ServerIdle
    /\ EmbedIdle
    /\ IndexIdle
    /\ SearchIdle
    /\ CallIdle
    /\ txt_files \in TextFiles
    /\ txt_files["b.txt"] = <<>>
    /\ join_cost \in JoinCosts
    /\ min_tokens \in 0..MaxMinTokens
    /\ overlap \in 0..MaxOverlap
    /\ pending = Filenames
    /\ cfile = "none"
    /\ ci = 0
    /\ file_chunks = <<>>
    /\ iterations = 0
    /\ out_file = <<>>

SpecTokens == InitTokens /\ [][NextChunk]_vars

\* ------------------------ web/rag_server.py run_rag, the loop of line 126
\* The rows a slot can name.
Rows == 0..(MaxIndexRows - 1)

\* The results of index.search for k = TOP_K: TOP_K slots, of which at most
\* as many as the index has rows name one, at any positions.
FilledSlots == {T \in SUBSET (1..TOP_K) : Cardinality(T) <= MaxIndexRows}
SearchResult(S, row) == [p \in 1..TOP_K |-> IF p \in S THEN row[p] ELSE -1]

InitSearch ==
    /\ ServerIdle
    /\ EmbedIdle
    /\ IndexIdle
    /\ ChunkIdle
    /\ CallIdle
    /\ \E S \in FilledSlots : \E row \in [S -> Rows] : I = SearchResult(S, row)
    /\ slot_rank = 0
    /\ retrieved_chunks = <<>>
    /\ chunk_lookup = {}

\* Lines 126-131: one turn of the loop, for the slot at enumerate's rank.
run_rag_collect ==
    /\ slot_rank < Len(I)
    /\ LET idx == I[slot_rank + 1] IN
         IF idx < 0
         THEN UNCHANGED <<retrieved_chunks, chunk_lookup>>
         ELSE /\ chunk_lookup' =
                   {e \in chunk_lookup : e[1] # citation(slot_rank)}
                       \cup {<<citation(slot_rank), idx>>}
              /\ retrieved_chunks' =
                   Append(retrieved_chunks, <<citation(slot_rank), idx>>)
    /\ slot_rank' = slot_rank + 1
    /\ UNCHANGED <<fsVars, buildVars, queryVars, embedVars, indexVars,
                   chunkVars, callVars, I>>

SpecSearch == InitSearch /\ [][run_rag_collect]_vars

\* ---------------------- web/rag_server.py call_openai_chat, lines 89-101
\* Line 100, time.sleep(2): the seconds slept after a failed attempt.
delay == 2

\* Line 90, for _ in range(retries): the loop has a turn left after k turns.
\* First a loop of one turn more.
range_has_next_inclusive(k) == k <= retries
range_has_next(k) == k < retries

\* The outcomes the next attempt can have: _get_openai_client raises while
\* no client is cached and OPENAI_API_KEY is not set.
AttemptsNow ==
    IF _client # "None" \/ OPENAI_API_KEY # "unset" THEN AttemptOutcomes
    ELSE {"raise"}

InitCall == FsInit /\ BuildInit /\ QueryInit /\ EmbedIdle /\ StagesIdle

\* run_rag lines 108-118: load_db has returned and the rewrite call begins.
run_rag_call(q) ==
    /\ cpc[q] = "idle"
    /\ cpc' = [cpc EXCEPT ![q] = "rewrite"]
    /\ UNCHANGED <<fsVars, buildVars, queryVars, embedVars, indexVars, chunkVars,
                   searchVars, attempt, call_result, returned, attempts_made,
                   slept>>

\* Lines 90-100, one turn of the loop: the attempt returns its content at
\* line 97, or raises and lines 98-100 print the exception and sleep.
call_openai_chat_attempt(q) ==
    /\ cpc[q] \in {"rewrite", "answer"}
    /\ call_result[q] = "pending"
    /\ range_has_next(attempt[q])
    /\ attempt' = [attempt EXCEPT ![q] = @ + 1]
    /\ attempts_made' = [attempts_made EXCEPT ![q] = @ + 1]
    /\ _client' = client_after_call
    /\ \E outcome \in AttemptsNow :
         IF outcome = "raise"
         THEN /\ slept' = [slept EXCEPT ![q] = @ + delay]
              /\ UNCHANGED call_result
         ELSE /\ call_result' = [call_result EXCEPT ![q] = outcome]
              /\ UNCHANGED slept
    /\ UNCHANGED <<fsVars, buildVars, qpc, qdb, qresult, apiListing,
                   OPENAI_API_KEY, ntotal, refined_prompt, query_vec, reply, now,
                   logs, clientVars, embedVars, indexVars, chunkVars, searchVars,
                   cpc, returned>>

\* Line 97 or line 101: the call returns to run_rag, which goes on to the
\* answer call (line 142) or to the end of the query.
call_openai_chat_return(q) ==
    /\ cpc[q] \in {"rewrite", "answer"}
    /\ call_result[q] # "pending" \/ ~range_has_next(attempt[q])
    /\ returned' = [returned EXCEPT ![q] =
                       Append(@, IF call_result[q] = "pending" THEN "None"
                                 ELSE call_result[q])]
    /\ cpc' = [cpc EXCEPT ![q] = IF @ = "rewrite" THEN "answer" ELSE "over"]
    /\ attempt' = [attempt EXCEPT ![q] = 0]
    /\ call_result' = [call_result EXCEPT ![q] = "pending"]
    /\ UNCHANGED <<fsVars, buildVars, queryVars, embedVars, indexVars, chunkVars,
                   searchVars, attempts_made, slept>>

CallStep(q) ==
    \/ run_rag_call(q)
    \/ call_openai_chat_attempt(q)
    \/ call_openai_chat_return(q)

\* The query whose calls are followed, while other clients change the key.
CallQueries == {"q1"}

NextCall ==
    \/ \E q \in CallQueries : CallStep(q)
    \/ update_api_key

\* The request thread of the query keeps running.
SpecCall ==
    InitCall /\ [][NextCall]_vars /\ \A q \in CallQueries : WF_vars(CallStep(q))

\* ------------------------------------------------------------ claims
RunningPipeline(r) ==
    bpc[r] \in {"convert", "organize", "extract", "chunk", "embed", "index",
                "index_meta"}

\* C1: at every moment at most one build request is executing run_pipeline,
\* whatever the number of requests under way and whatever their target names.
C1_AtMostOnePipeline ==
    Cardinality({r \in BuildReqs : RunningPipeline(r)}) <= 1

\* A build is in its embedding stage while another request stands at the lock.
C1_Witness ==
    \E r \in BuildReqs, s \in BuildReqs :
        r # s /\ bpc[r] = "embed" /\ bpc[s] = "acquire"

\* C2: a request that reaches the lock while it is held can always take its
\* step (it never waits), and that step ends the request with the
\* "build already in progress" response, whatever the two target names are.
C2_RejectedImmediately ==
    /\ [](\A r \in BuildReqs :
            bpc[r] = "acquire" => ENABLED build_database_acquire(r))
    /\ [][\A r \in BuildReqs :
            (bpc[r] = "acquire" /\ BUILD_LOCK /\ bpc'[r] # "acquire")
                => (bpc'[r] = "idle" /\ response'[r] = "busy"
                    /\ BUILD_LOCK')]_vars

\* A request was turned away while another one, for another name, is building.
C2_Witness ==
    \E r \in BuildReqs, s \in BuildReqs :
        /\ r # s
        /\ RunningPipeline(r)
        /\ bname[r] = 1
        /\ bpc[s] = "idle"
        /\ response[s] = "busy"
        /\ 2 \in dbDirs

C4_WorkerFailureFailsBuild ==
    [][\A r \in BuildReqs :
        (bpc[r] = "finish" /\ workerFailed[r] /\ bpc'[r] = "idle")
            => /\ response'[r] = "failure"
               /\ bname[r] \notin dbDirs'
               /\ bname[r] \notin Range(list_databases')]_vars

\* The inputs C5 names: no name, a name with a forbidden character, no source
\* path, a source path that is missing, no directory or without a PDF, or a
\* target that exists.
C5_BadInput(in) ==
    \/ in[1] \in {"missing", "invalid"}
    \/ in[3] \in {"missing", "nonexistent", "not_dir", "no_pdf"}
    \/ (in[1] = "valid" /\ in[2] \in dbDirs)

\* C5: every such input is rejected by the checks, and a request rejected by
\* the checks ends there: no directory is created, the lock is not taken and
\* no request moves into a pipeline stage.
C5_RejectedBeforePipeline ==
    /\ [](\A in \in AllBuildInputs :
            C5_BadInput(in)
                => validation_error(in[1], in[2], in[3], in[4]) \in Rejections)
    /\ [][\A r \in BuildReqs :
            (bpc[r] = "idle" /\ response'[r] # response[r]
             /\ response'[r] \in Rejections)
                => (bpc' = bpc /\ UNCHANGED <<fsVars, BUILD_LOCK>>)]_vars

\* A request for an existing name was rejected while a build holds the lock.
C5_Witness ==
    \E r \in BuildReqs, s \in BuildReqs :
        /\ r # s
        /\ bpc[r] = "idle" /\ response[r] = "already_exists"
        /\ RunningPipeline(s)

\* C6 (as claimed): no build request ends with an exception leaving
\* build_database.
C6_NoExceptionEscapes ==
    \A r \in BuildReqs : response[r] # "escaped"

\* C7: a query whose database lacks the index or the metadata file when
\* load_db looks ends in a degraded answer with no citations, and the stages
\* after load_db are entered only from a load that found both files.
C7_LoadNeedsBothArtifacts ==
    [][\A q \in Queries :
        /\ (qpc[q] \in {"load_check", "load_read"}
            /\ (qdb[q] \notin hasIndex \/ qdb[q] \notin hasMeta)
            /\ qpc'[q] # qpc[q])
               => /\ qpc'[q] = "idle"
                  /\ qresult'[q].answer = "unable"
                  /\ qresult'[q].citations = {}
        /\ (qpc'[q] \in {"rewrite", "search"} /\ qpc[q] # qpc'[q]
            /\ qpc[q] # "rewrite")
               => /\ qpc[q] = "load_read"
                  /\ qdb[q] \in hasIndex
                  /\ qdb[q] \in hasMeta]_vars

\* A query got the degraded answer for a database whose index is written and
\* whose metadata is not.
C7_Witness ==
    \E q \in Queries :
        /\ qpc[q] = "idle"
        /\ qresult[q].answer = "unable"
        /\ qdb[q] \in hasIndex
        /\ qdb[q] \notin hasMeta

\* The names a listing must hold now.
IndexedDirs == IF rootExists THEN {n \in dbDirs : n \in hasIndex} ELSE {}

\* C8: the response of the listing endpoint holds exactly the directories
\* whose index file exists at the call, each once, in increasing order.
C8_ListingExact ==
    [][api_databases
        => /\ Range(apiListing') = IndexedDirs
           /\ \A i \in 1..Len(apiListing'), j \in 1..Len(apiListing') :
                i < j => apiListing'[i] < apiListing'[j]]_vars

\* A listing of one name, made while another directory has no index yet.
C8_Witness ==
    /\ Len(apiListing) = 1
    /\ apiListing = list_databases
    /\ dbDirs \ hasIndex # {}

\* Number of occurrences of x in the sequence s.
Count(x, s) == Cardinality({i \in 1..Len(s) : s[i] = x})

SameBag(s, t) ==
    /\ Len(s) = Len(t)
    /\ \A x \in Range(s) \cup Range(t) : Count(x, s) = Count(x, t)

RECURSIVE ConcatShards(_, _)
ConcatShards(sh, W) ==
    IF W = 0 THEN <<>> ELSE ConcatShards(sh, W - 1) \o sh[W - 1]

AllCompleted ==
    /\ epc = "returned"
    /\ entries # <<>>
    /\ \A k \in Ranks : processes[k] = "exit0"

MergedEntries == [i \in 1..Len(final_output) |-> final_output[i][1]]

\* C9: for every worker count from 1 to the number of records the shards,
\* concatenated in shard order, hold every input record exactly once; and so
\* does the merged file when all workers have completed.
C9_ShardsPartitionInput ==
    /\ \A W \in 1..Len(entries) :
         SameBag(ConcatShards(_chunkify(entries, W), W), entries)
    /\ AllCompleted => SameBag(MergedEntries, entries)

\* Three records went through two workers that both completed.
C9_Witness ==
    AllCompleted /\ Len(entries) = 3 /\ num_workers = 2

\* Position (0-based) of the input record that row k of the merged file holds
\* under W shards: the rows go by shard p % W first, by position p second.
MergeKey(p, W, N) == (p % W) * N + p
ExpectedPosition(k, W, N) ==
    CHOOSE p \in 0..(N - 1) :
        Cardinality({q \in 0..(N - 1) : MergeKey(q, W, N) < MergeKey(p, W, N)})
            = k - 1

\* C10: shard r holds the records at positions r, r+W, r+2W, ... in input
\* order, and the merged file lists shard 0, then shard 1, ... up to shard
\* W-1: its rows are a function of the input and W alone, whatever the order
\* in which the workers finished.
C10_MergeOrderDeterministic ==
    /\ epc \in {"spawn", "join", "merge", "returned"} /\ entries # <<>>
        => \A r \in Ranks :
             /\ \A j \in 1..Len(shards[r]) :
                  shards[r][j] = entries[r + (j - 1) * num_workers + 1]
             /\ Len(shards[r]) =
                  Cardinality({p \in 0..(Len(entries) - 1) : p % num_workers = r})
    /\ AllCompleted
        => /\ Len(final_output) = Len(entries)
           /\ \A k \in 1..Len(entries) :
                final_output[k] =
                    EmbeddedLine(entries[ExpectedPosition(k, num_workers,
                                                         Len(entries)) + 1])

\* A merge of three records from two or more workers, a higher rank having
\* finished before a lower one.
C10_Witness ==
    AllCompleted /\ outOfOrder /\ Len(entries) = 3 /\ num_workers >= 2

\* C11: when build_faiss_index has returned, the index and the metadata list
\* have one row per line of the merged file, and row i of each is the vector,
\* respectively the summary, of line i.
C11_RowsAligned ==
    ipc = "returned"
        => /\ Len(index_file) = Len(embedding_file)
           /\ Len(metadata_file) = Len(embedding_file)
           /\ \A i \in 1..Len(embedding_file) :
                /\ index_file[i] = Vector(embedding_file[i])
                /\ metadata_file[i] = Summary(embedding_file[i])

\* An index was built over three lines, two of them the same record.
C11_Witness ==
    /\ ipc = "returned"
    /\ Len(embedding_file) = 3
    /\ embedding_file[1] = embedding_file[3]
    /\ embedding_file[1] # embedding_file[2]

\* C12: with no vector read from the merged file the build raises in that
\* step, writing neither artifact, and a build that raised takes no further
\* step: it is not run again and the artifacts stay as they were.
C12_EmptySetIsFatal ==
    /\ [][(ipc = "read" /\ Len(embeddings) = Len(embedding_file)
           /\ embeddings = <<>> /\ ipc' # ipc)
             => (ipc' = "raised"
                 /\ UNCHANGED <<index_file, metadata_file>>)]_vars
    /\ [][ipc = "raised"
             => (ipc' = "raised"
                 /\ UNCHANGED <<index_file, metadata_file>>)]_vars
    /\ [](ipc = "raised" => ~ENABLED NextIndex)

\* The build raised over an empty merged file, the earlier artifacts untouched.
C12_Witness ==
    /\ ipc = "raised"
    /\ embedding_file = <<>>
    /\ index_file = OldArtifact
    /\ metadata_file = OldArtifact

\* The chunks of paragraphs from window start i on, by the rule of the loop.
RECURSIVE ChunksFrom(_, _, _, _)
ChunksFrom(paras, i, minTokens, ov) ==
    IF i >= Len(paras) THEN <<>>
    ELSE LET j == inner_loop(paras, i, 0, minTokens) IN
         <<Chunk(paras, i, j)>>
             \o ChunksFrom(paras, i + Max2(1, j - i - ov), minTokens, ov)

\* C13: every turn of the chunker's outer loop moves the window start forward
\* by at least one paragraph, so a file takes at most one turn per paragraph,
\* whatever min_tokens and whatever overlap >= 0, also when the overlap is
\* not smaller than the number of paragraphs of the chunk just closed.
C13_WindowAdvances ==
    /\ [][group_paragraphs_by_min_tokens => ci' >= ci + 1]_vars
    /\ [](cfile # "none" =>
            /\ iterations <= Len(txt_files[cfile])
            /\ iterations <= ci)

\* A file of three paragraphs was grouped to its end with an overlap that is
\* at least the size of one of its chunks.
C13_Witness ==
    /\ cfile # "none"
    /\ Len(txt_files[cfile]) = 3
    /\ ci >= 3
    /\ \E k \in 1..Len(file_chunks) :
         overlap >= file_chunks[k].last - file_chunks[k].first + 1

\* The records written for file f, in the order of the chunk file.
RecordsOf(f) ==
    LET FromF(rec) == rec.source_file = f IN SelectSeq(out_file, FromF)

\* C14: the records of a file in the chunk file carry the numbers 0, 1, ...
\* in the order of its chunks, and once the file is collected there is one
\* record for each of its n chunks: the numbers are exactly 0..n-1.
C14_ChunkIdsContiguous ==
    \A f \in Filenames :
        LET recs == RecordsOf(f)
            all == ChunksFrom(txt_files[f], 0, min_tokens, overlap)
        IN /\ \A k \in 1..Len(recs) :
                /\ recs[k].chunk_id = k - 1
                /\ recs[k].text = all[k]
           /\ Len(recs) \in {0, Len(all)}
           /\ (Len(recs) # 0 => f \notin pending)

\* Both files are written, one with three chunks and one with one.
C14_Witness ==
    /\ pending = {}
    /\ \E f \in Filenames, g \in Filenames :
         Len(RecordsOf(f)) = 3 /\ Len(RecordsOf(g)) = 1

\* The example of C15, in units of 100 tokens.
C15_Example ==
    /\ cfile # "none"
    /\ txt_files[cfile] = <<2, 2, 2>>
    /\ min_tokens = 5
    /\ overlap = 1

\* C15: three paragraphs of 200 tokens with min_tokens = 500 and overlap = 1
\* give chunk 0 over paragraphs 0..2, a window start of 2 after it, and
\* chunk 1 over paragraph 2 alone with 200 tokens; there is no third chunk.
C15_ThreeParagraphExample ==
    C15_Example =>
        /\ Len(file_chunks) <= 2
        /\ (Len(file_chunks) = 0 => ci = 0)
        /\ (Len(file_chunks) >= 1 =>
              /\ file_chunks[1].first = 0
              /\ file_chunks[1].last = 2
              /\ ci >= 2)
        /\ (Len(file_chunks) = 1 => ci = 2)
        /\ (Len(file_chunks) = 2 =>
              /\ file_chunks[2] = [first |-> 2, last |-> 2, token_count |-> 2]
              /\ file_chunks[2].token_count < min_tokens
              /\ ci = 3)
        /\ (ci >= 3 => Len(file_chunks) = 2)

\* The example has been grouped to its end.
C15_Witness ==
    C15_Example /\ ci >= 3 /\ Len(file_chunks) = 2

\* C16: whatever the attempts of the rewrite call do, the call returns and the
\* query goes on to the search with a prompt; no credential gives no rewrite,
\* and when the call gave none, or an empty one, the prompt is the user's
\* query, which is what the search then encodes.
C16_RewriteNeverFails ==
    /\ []((\E q \in Queries : qpc[q] = "rewrite") =>
            \A outcomes \in [1..retries -> AttemptOutcomes] :
              /\ call_openai_chat(outcomes) \in {"None", "empty", "text"}
              /\ call_openai_chat(outcomes) \in {"None", "empty"}
                   => rewrite_or_user_input(call_openai_chat(outcomes))
                          = "user_input")
    /\ [][\A q \in Queries :
            /\ (qpc[q] = "rewrite" /\ qpc'[q] # "rewrite")
                 => /\ qpc'[q] = "search"
                    /\ refined_prompt'[q] \in {"user_input", "rewritten"}
                    /\ ((OPENAI_API_KEY = "unset" /\ _client = "None")
                        => refined_prompt'[q] = "user_input")
            /\ (qpc[q] = "search" /\ qpc'[q] = "answer")
                 => query_vec'[q] = refined_prompt[q]]_vars

\* A query is past the search with the user's own words while no key is set.
C16_Witness ==
    \E q \in Queries :
        /\ qpc[q] = "answer"
        /\ query_vec[q] = "user_input"
        /\ OPENAI_API_KEY = "unset"

\* C17: when every attempt of the answer call fails the call gives no reply,
\* and the query then ends with the sentinel answer and no citations: it is
\* not the degraded answer that home renders for an exception of run_rag, and
\* nothing is logged.
C17_AnswerFailureGivesSentinel ==
    /\ []((\E q \in Queries : qpc[q] = "answer") =>
            call_openai_chat([k \in 1..retries |-> "raise"]) = "None")
    /\ [][\A q \in Queries :
            /\ (qpc[q] = "answer" /\ qpc'[q] # "answer"
                /\ OPENAI_API_KEY = "unset" /\ _client = "None")
                 => /\ qpc'[q] = "idle"
                    /\ qresult'[q] = Message("error_generating")
                    /\ logs' = logs
            /\ (qpc[q] = "answer" /\ qpc'[q] = "idle")
                 => qresult'[q] = Message("error_generating")]_vars

\* A query got the sentinel answer while a key is set, another query being
\* answered and logged before.
C17_Witness ==
    \E q \in Queries :
        /\ qpc[q] = "idle"
        /\ qresult[q].answer = "error_generating"
        /\ OPENAI_API_KEY # "unset"
        /\ logs # {}

\* The integer a numeral denotes.
RECURSIVE IntValue(_)
IntValue(numeral) ==
    IF Len(numeral) = 0 THEN 0
    ELSE 10 * IntValue(SubSeq(numeral, 1, Len(numeral) - 1))
         + numeral[Len(numeral)]

\* The integers cited in an answer.
CitedIntegers(answer) == {IntValue(num) : num \in cited_numbers(answer)}

\* C18 (as claimed): the citation map of an answered query has one key for
\* each integer cited in the answer, and the key's value is the document
\* identifier of that rank when the search found it, the sentinel otherwise.
C18_CitationsPerInteger ==
    \A q \in Queries :
        qresult[q].answer = "answered"
            => /\ {<<IntValue(c[1]), c[2]>> : c \in qresult[q].citations}
                    = {<<n, IF n \in Ranks_found THEN Doi(n) ELSE NA>> :
                          n \in CitedIntegers(qresult[q].text)}
               /\ Cardinality(qresult[q].citations)
                    = Cardinality(CitedIntegers(qresult[q].text))

\* C19 (as claimed): a record of the audit log, once written, stays as it is.
C19_RecordsImmutable ==
    [][\A p \in logs : p \in logs']_vars

\* C20 (as claimed): a query that has its generated answer returns it with
\* its citation map, whether or not the log could be written.
C20_LogFailureHarmless ==
    [][\A q \in Queries :
        (qpc[q] = "log" /\ qpc'[q] = "idle")
            => qresult'[q] = Answer(reply[q], citation_dict(reply[q]))]_vars

\* C21: a query whose database name is not listed, resolves outside the
\* database root, or lacks one of the two artifacts when load_db looks for
\* them, returns to the caller with a degraded message, no answer text and an
\* empty citation map; no exception leaves home.
C21_Degraded == {Message("not_available"), Unable}
C21_BadTargetDegrades ==
    [][\A q \in Queries :
         /\ (home_post(q) /\ (qdb'[q] \notin Range(list_databases)
                               \/ ~inside_root(qdb'[q])))
              => (qpc'[q] = "idle" /\ qresult'[q] \in C21_Degraded)
         /\ ((load_db_check(q) \/ load_db_read(q))
              /\ ~load_db_artifacts_present(qdb[q]))
              => (qpc'[q] = "idle" /\ qresult'[q] \in C21_Degraded)
         /\ qresult'[q].answer # "raised"]_vars
\* A query naming a path outside the root was turned away with the degraded
\* message while a database is listed.
C21_Witness ==
    \E q \in Queries :
        /\ qpc[q] = "idle"
        /\ qdb[q] = -1
        /\ qresult[q] = Message("not_available")
        /\ list_databases # <<>>

\* C22: once a change of the API key is complete, the cached client was
\* built from the current key: none is cached when the key is cleared, and
\* none built from an earlier key is cached, whatever the threads that ask
\* for a client are doing meanwhile.
C22_NoStaleClient ==
    /\ _client \in {"None", OPENAI_API_KEY}
    /\ (OPENAI_API_KEY = "unset" => _client = "None")

\* C23: while the merge loop of embed_chunks runs, and after it, every worker
\* process that was started has terminated, so no shard file is read while
\* its worker can still write to it.
C23_MergeAfterWorkers ==
    (epc \in {"merge", "returned"} /\ num_workers > 0) =>
        \A k \in Ranks :
            /\ processes[k] \in {"exit0", "exit1"}
            /\ ~ENABLED _embed_worker_write(k)
\* The merge has copied a shard of a run whose workers ended out of rank
\* order, one of them before it wrote all its records.
C23_Witness ==
    /\ epc = "merge"
    /\ eidx >= 1
    /\ outOfOrder
    /\ \E k \in Ranks : processes[k] = "exit1"

\* The place of a position of build_database among the calls of run_pipeline.
C24_Place(s) ==
    CASE s = "convert" -> 1
      [] s = "organize" -> 2
      [] s = "extract" -> 3
      [] s = "chunk" -> 4
      [] s = "embed" -> 5
      [] s \in {"index", "index_meta"} -> 6
      [] OTHER -> 0

\* C24: within one build the stages start in the order conversion,
\* reorganization (which may be left out), metadata extraction, chunking,
\* embedding, index build, each only when the one before it has returned; a
\* stage that raises is followed by no stage of that build.
C24_StagesInOrder ==
    [][\A r \in BuildReqs :
         /\ (C24_Place(bpc'[r]) > 0 /\ bpc'[r] # bpc[r]) =>
               /\ ~build_error'[r]
               /\ \/ C24_Place(bpc'[r]) = C24_Place(bpc[r]) + 1
                  \/ bpc[r] = "convert" /\ bpc'[r] = "extract"
                  \/ bpc[r] = "index" /\ bpc'[r] = "index_meta"
         /\ (C24_Place(bpc[r]) > 0 /\ build_error'[r]) => bpc'[r] = "release"
         /\ (C24_Place(bpc[r]) > 0 /\ bpc'[r] = "release" /\ ~build_error'[r])
               => bpc[r] = "index_meta"
         /\ bpc[r] = "release" => bpc'[r] \in {"release", "finish"}]_vars
\* One build is writing the metadata of its index, every stage before having
\* returned, after a build was ended by the exception of a stage.
C24_Witness ==
    \E r, t \in BuildReqs :
        /\ bpc[r] = "index_meta"
        /\ response[t] = "failure"

\* C25 (as claimed): a build in which the chunking of a document raised
\* returns the failure response and leaves no target directory and no listed
\* name; it does not complete without the chunks of that document.
C25_DocumentFailureFailsBuild ==
    [][\A r \in BuildReqs :
        (bpc[r] = "finish" /\ docFailed[r] /\ bpc'[r] = "idle")
            => /\ response'[r] = "failure"
               /\ bname[r] \notin dbDirs'
               /\ bname[r] \notin Range(list_databases')]_vars

\* C26: for a non-empty input of N entries the worker count W is
\* min(requested, devices found, N) when accelerators are asked for and at
\* least one is found, min(requested, N) on CPU (asked for, or fallen back
\* to), and 1 when that is not positive; so 1 <= W <= N, there are W shards,
\* none of them empty, and with accelerators every rank is below the number
\* of devices found.
C26_AtLeastOne(w) == IF w <= 0 THEN 1 ELSE w
C26_WorkerCount ==
    epc \in {"spawn", "join"} =>
        LET N == Len(entries)
            requested == embed_args.num_workers
            available == embed_args.available
        IN  /\ N >= 1
            /\ num_workers =
                  IF embed_args.device = "gpu"
                  THEN C26_AtLeastOne(
                           SetMin({requested, available, N}))
                  ELSE C26_AtLeastOne(SetMin({requested, N}))
            /\ (embed_args.device = "gpu" => available >= 1)
            /\ 1 <= num_workers
            /\ num_workers <= N
            /\ DOMAIN shards = Ranks
            /\ \A k \in Ranks : shards[k] # <<>>
            /\ embed_args.device = "gpu" => \A k \in Ranks : k < available
\* Three workers were asked for with accelerators, two devices were found and
\* the second worker has been started on the second device.
C26_Witness ==
    /\ epc = "join"
    /\ embed_args.device = "gpu"
    /\ embed_args.num_workers > embed_args.available
    /\ embed_args.available = 2
    /\ num_workers = 2
    /\ processes[1] = "running"

\* The chunks written for file f, in the order of the chunk file.
ChunksOf(f) == [k \in 1..Len(RecordsOf(f)) |-> RecordsOf(f)[k].text]
\* The number of paragraphs of chunk c.
Size(c) == c.last - c.first + 1

\* C27 (as claimed): of two consecutive chunks of a file the later one starts
\* with the last overlap paragraphs of the earlier one, whatever the overlap.
C27_SharesOverlap(cs) ==
    \A k \in 1..(Len(cs) - 1) :
        /\ cs[k + 1].first = cs[k].last + 1 - overlap
        /\ cs[k + 1].last >= cs[k].last
C27_ConsecutiveShareOverlap ==
    /\ cfile # "none" => C27_SharesOverlap(file_chunks)
    /\ \A f \in Filenames : C27_SharesOverlap(ChunksOf(f))

\* C27 (amended): of two consecutive chunks of a file, the earlier one having
\* n paragraphs, the later one starts with the last min(overlap, n - 1)
\* paragraphs of the earlier one and holds them all: the two share exactly
\* overlap paragraphs when n > overlap, and all but the first paragraph of
\* the earlier chunk otherwise.
C27_SharesUpToOverlap(cs) ==
    \A k \in 1..(Len(cs) - 1) :
        /\ cs[k + 1].first = cs[k].last + 1 - Min2(overlap, Size(cs[k]) - 1)
        /\ cs[k + 1].last >= cs[k].last
C27_ConsecutiveShareUpToOverlap ==
    /\ cfile # "none" => C27_SharesUpToOverlap(file_chunks)
    /\ \A f \in Filenames : C27_SharesUpToOverlap(ChunksOf(f))
\* A written file has a chunk longer than the overlap, which shares overlap
\* paragraphs with its successor, and a chunk of one paragraph, which shares
\* none.
C27_Witness ==
    /\ overlap >= 1
    /\ \E f \in Filenames :
         LET cs == ChunksOf(f) IN
         /\ \E k \in 1..(Len(cs) - 1) : Size(cs[k]) > overlap
         /\ \E k \in 1..(Len(cs) - 1) : Size(cs[k]) = 1

\* The sum of the token counts of paragraphs a..b, each counted on its own.
RECURSIVE Accumulated(_, _, _)
Accumulated(paras, a, b) ==
    IF a > b THEN 0 ELSE Accumulated(paras, a, b - 1) + paras[b + 1]

\* C28: a chunk that does not end at the last paragraph of its file has an
\* accumulated token count of at least min_tokens, and every chunk ends at
\* the first paragraph at which the accumulated count reaches min_tokens, a
\* paragraph that reaches it alone being a chunk; only a chunk that ends at
\* the last paragraph can stay below.
C28_ClosesAtMinimum(paras, cs) ==
    \A k \in 1..Len(cs) :
        /\ cs[k].last < Len(paras) - 1
             => Accumulated(paras, cs[k].first, cs[k].last) >= min_tokens
        /\ cs[k].last > cs[k].first
             => Accumulated(paras, cs[k].first, cs[k].last - 1) < min_tokens
C28_ChunksReachMinimum ==
    /\ cfile # "none" => C28_ClosesAtMinimum(txt_files[cfile], file_chunks)
    /\ \A f \in Filenames : C28_ClosesAtMinimum(txt_files[f], ChunksOf(f))
\* A written file has a chunk of several paragraphs that went beyond the
\* minimum before the end of the file, and a last chunk below the minimum.
C28_Witness ==
    \E f \in Filenames :
        LET cs == ChunksOf(f)
            paras == txt_files[f]
        IN  /\ Len(cs) >= 2
            /\ \E k \in 1..Len(cs) :
                  /\ cs[k].last < Len(paras) - 1
                  /\ cs[k].last > cs[k].first
                  /\ Accumulated(paras, cs[k].first, cs[k].last) > min_tokens
            /\ Accumulated(paras, cs[Len(cs)].first, cs[Len(cs)].last)
                  < min_tokens

\* The token count of the joined text of paragraphs a..b.
C29_Joined(paras, a, b) == Accumulated(paras, a, b) + (b - a) * join_cost

\* C29 (as claimed): the recorded count of a chunk is the count of its joined
\* text, and it is this count, taken after each paragraph, that closes the
\* chunk: a chunk that does not end at the last paragraph has a joined count
\* of at least min_tokens, and without its last paragraph it is below.
C29_ClosesOnJoined(paras, cs) ==
    \A k \in 1..Len(cs) :
        /\ cs[k].token_count = C29_Joined(paras, cs[k].first, cs[k].last)
        /\ cs[k].last < Len(paras) - 1
             => C29_Joined(paras, cs[k].first, cs[k].last) >= min_tokens
        /\ cs[k].last > cs[k].first
             => C29_Joined(paras, cs[k].first, cs[k].last - 1) < min_tokens
C29_BothCountsReencoded ==
    /\ cfile # "none" => C29_ClosesOnJoined(txt_files[cfile], file_chunks)
    /\ \A f \in Filenames : C29_ClosesOnJoined(txt_files[f], ChunksOf(f))

\* C29 (amended): the recorded count of a chunk is the count of its joined
\* text; the count that closes a chunk is the running sum of the counts of
\* its paragraphs, each encoded on its own.
C29_ClosesOnSum(paras, cs) ==
    \A k \in 1..Len(cs) :
        /\ cs[k].token_count = C29_Joined(paras, cs[k].first, cs[k].last)
        /\ cs[k].last < Len(paras) - 1
             => Accumulated(paras, cs[k].first, cs[k].last) >= min_tokens
        /\ cs[k].last > cs[k].first
             => Accumulated(paras, cs[k].first, cs[k].last - 1) < min_tokens
C29_RecordedReencodedClosedOnSum ==
    /\ cfile # "none" => C29_ClosesOnSum(txt_files[cfile], file_chunks)
    /\ \A f \in Filenames : C29_ClosesOnSum(txt_files[f], ChunksOf(f))
\* A written file has a chunk before its end whose recorded count is below
\* the minimum that the sum of its paragraphs reached.
C29_Witness ==
    \E f \in Filenames :
        LET cs == ChunksOf(f) IN
        \E k \in 1..Len(cs) :
            /\ cs[k].last < Len(txt_files[f]) - 1
            /\ cs[k].token_count < min_tokens

\* The positions among the first n slots whose slot names a row, in order.
RECURSIVE C30_Found(_)
C30_Found(n) ==
    IF n = 0 THEN <<>>
    ELSE IF I[n] >= 0 THEN Append(C30_Found(n - 1), n)
    ELSE C30_Found(n - 1)

\* C30: a slot of the search result that names a row gets its 1-based
\* position in the result as citation and makes one context entry and one
\* lookup entry under it; a slot with a negative identifier makes neither;
\* the context entries stand in increasing order of their citations, and no
\* citation exceeds K.
C30_RanksArePositions ==
    LET pos == C30_Found(slot_rank) IN
    /\ Len(retrieved_chunks) = Len(pos)
    /\ \A k \in 1..Len(pos) :
         /\ IntValue(retrieved_chunks[k][1]) = pos[k]
         /\ retrieved_chunks[k][2] = I[pos[k]]
         /\ pos[k] <= TOP_K
    /\ \A k \in 1..(Len(pos) - 1) :
         IntValue(retrieved_chunks[k][1]) < IntValue(retrieved_chunks[k + 1][1])
    /\ Cardinality(chunk_lookup) = Len(pos)
    /\ \A e \in chunk_lookup :
         \E k \in 1..Len(pos) : retrieved_chunks[k] = e
\* The loop is through a result whose first slot names no row and whose last
\* slot does, with the citation 15.
C30_Witness ==
    /\ I # <<>>
    /\ slot_rank = TOP_K
    /\ I[1] < 0
    /\ I[TOP_K] >= 0
    /\ \E e \in chunk_lookup : e[1] = <<1, 5>>
    /\ Len(retrieved_chunks) >= 2

\* C31: a service call is attempted at most 3 times, sleeps 2 seconds after
\* each failed attempt and after no other, returns the reply of its first
\* successful attempt without a further attempt and None only after 3 failed
\* attempts; a query makes at most 6 attempts and comes to its end.
C31_AttemptStep(q) ==
    attempts_made'[q] # attempts_made[q]
        => /\ call_result[q] = "pending"
           /\ attempt[q] < 3
           /\ slept'[q] - slept[q] = IF call_result'[q] = "pending" THEN 2 ELSE 0
C31_ReturnStep(q) ==
    Len(returned'[q]) > Len(returned[q])
        => /\ attempts_made'[q] = attempts_made[q]
           /\ returned'[q][Len(returned'[q])] =
                  IF call_result[q] = "pending" THEN "None" ELSE call_result[q]
           /\ (call_result[q] = "pending" => attempt[q] = 3)
C31_BoundedRetries ==
    /\ [](\A q \in CallQueries : attempt[q] <= 3 /\ attempts_made[q] <= 6)
    /\ [][\A q \in CallQueries : C31_AttemptStep(q) /\ C31_ReturnStep(q)]_vars
    /\ \A q \in CallQueries : (cpc[q] = "rewrite") ~> (cpc[q] = "over")
\* A query is over after 6 attempts: the rewrite call gave up after three
\* failures, the answer call got its reply at the third attempt, and the
\* five failures cost 10 seconds.
C31_Witness ==
    \E q \in CallQueries :
        /\ cpc[q] = "over" /\ attempts_made[q] = 6 /\ slept[q] = 10
        /\ returned[q] = <<"None", "text">>

\* C32 (as claimed): a build request that is rejected because another build
\* holds the lock leaves no target directory: the directory it asked for is
\* absent when it returns, as it was when the request passed the check of
\* line 127.
C32_BusyRejectionLeavesNoDirectory ==
    [][\A r \in BuildReqs :
        (bpc[r] = "acquire" /\ bpc'[r] = "idle" /\ response'[r] = "busy")
            => bname[r] \notin dbDirs']_vars

\* C33: under every interleaving of build requests, a step that removes a
\* database directory or writes an artifact into one is the step of a request
\* that made that directory itself; a directory that was there before the
\* request started, or that another request made, is left as it is.
C33_Mine(r, d) == bpc'[r] # bpc[r] /\ made_by[d] = r
C35_Holder(s) == InPipeline(s) \/ bpc[s] = "release"
C35_LockReleasedOnEveryExit ==
    /\ [](BUILD_LOCK <=> \E s \in BuildReqs : C35_Holder(s))
    /\ [][\A r \in BuildReqs :
            (bpc[r] = "acquire" /\ response'[r] = "busy")
                => \E s \in BuildReqs \ {r} : C35_Holder(s)]_vars
\* A build has failed and returned, and a later request is in the pipeline.
C35_Witness ==
    \E r \in BuildReqs, s \in BuildReqs :
        /\ bpc[r] = "idle" /\ response[r] = "failure"
        /\ bpc[s] = "parse" /\ BUILD_LOCK

\* C36 (as claimed): whatever the reorganization option, a build that fails
\* leaves the PDFs of its papers directory where they were: when the failed
\* request returns, they are in the source directory.
C36_FailedBuildKeepsSources ==
    [][\A r \in BuildReqs :
        (bpc[r] = "finish" /\ bpc'[r] = "idle" /\ response'[r] = "failure")
            => processed_pdfs'[r] = "source"]_vars

\* C37: for every paragraph sequence and every overlap >= 0 the chunks of a
\* document are non-empty spans of consecutive paragraphs, the first starting
\* at the first paragraph; every later chunk starts after the start of the
\* chunk before it and no later than the paragraph after that chunk's end; so
\* the chunks made so far cover every paragraph before the window start, and
\* the chunks of a finished document cover all its paragraphs.
C37_Spans(paras, cs) ==
    /\ \A k \in 1..Len(cs) :
         /\ 0 <= cs[k].first
         /\ cs[k].first <= cs[k].last
         /\ cs[k].last < Len(paras)
    /\ Len(cs) > 0 => cs[1].first = 0
    /\ \A k \in 1..(Len(cs) - 1) :
         /\ cs[k + 1].first > cs[k].first
         /\ cs[k + 1].first <= cs[k].last + 1
C37_Covered(cs, n) ==
    \A p \in 0..(n - 1) :
        \E k \in 1..Len(cs) : cs[k].first <= p /\ p <= cs[k].last
C37_ChunksCoverDocument ==
    /\ cfile # "none" =>
         /\ C37_Spans(txt_files[cfile], file_chunks)
         /\ C37_Covered(file_chunks, Min2(ci, Len(txt_files[cfile])))
    /\ \A f \in Filenames :
         ChunksOf(f) # <<>> =>
            /\ C37_Spans(txt_files[f], ChunksOf(f))
            /\ C37_Covered(ChunksOf(f), Len(txt_files[f]))
\* A written document of three paragraphs or more has a chunk that starts
\* inside the chunk before it and a chunk that starts right after the end of
\* the chunk before it.
C37_Witness ==
    \E f \in Filenames :
        LET cs == ChunksOf(f) IN
        /\ Len(txt_files[f]) >= 3
        /\ \E k \in 1..(Len(cs) - 1) : cs[k + 1].first <= cs[k].last
        /\ \E k \in 1..(Len(cs) - 1) : cs[k + 1].first = cs[k].last + 1

\* C38 (as claimed): a query writes an audit record if and only if its
\* generation stage produced an answer; so every query that leaves the log
\* stage, which it enters with the generated answer, has written its record.
C38_RecordIffGenerated ==
    [][\A q \in Queries :
        (qpc[q] = "log" /\ qpc'[q] = "idle")
            => <<now, LogRecord(q)>> \in logs']_vars

\* C38 (amended): a query writes an audit record if and only if its
\* generation stage produced an answer and the log file could be written.
\* The log stage is entered only from the answer stage, with a reply, and is
\* left only by returning; a query that returns the generated answer has
\* passed it and has put exactly its one record into the file of the second;
\* a query that returns anything else (the sentinel, a degraded message after
\* a failed load, a failed call or a failed log write) has added no record;
\* and no step but the return of a query changes the log directory.
C38_Returns(q) == qpc[q] # "idle" /\ qpc'[q] = "idle"
C38_RecordIffAnswerLogged ==
    [][/\ \A q \in Queries :
            /\ (qpc'[q] = "log" /\ qpc[q] # "log") =>
                   (qpc[q] = "answer" /\ reply'[q] \in Replies)
            /\ (qpc[q] = "log" /\ qpc'[q] # "log") => qpc'[q] = "idle"
            /\ C38_Returns(q) =>
                 IF qresult'[q].answer = "answered"
                 THEN /\ qpc[q] = "log"
                      /\ logs' = {p \in logs : p[1] # now}
                                    \cup {<<now, LogRecord(q)>>}
                 ELSE logs' \subseteq logs
       /\ (\A q \in Queries : ~C38_Returns(q)) => logs' = logs]_vars
\* One query has returned its generated answer, the other the sentinel, and
\* the log directory holds the one record of the answered query.
C38_Witness ==
    \E q \in Queries, o \in Queries :
        /\ qpc[q] = "idle" /\ qresult[q].answer = "answered"
        /\ qpc[o] = "idle" /\ qresult[o] = Message("error_generating")
        /\ Cardinality(logs) = 1
        /\ \A p \in logs : p[2].input_query = q

TypeOK ==
    /\ rootExists \in BOOLEAN
    /\ dbDirs \subseteq DbNames
    /\ hasIndex \subseteq dbDirs
    /\ hasMeta \subseteq dbDirs
    /\ (dbDirs # {} => rootExists)
    /\ BUILD_LOCK \in BOOLEAN
    /\ \A r \in BuildReqs :
         /\ response[r] \in Results
         /\ bname[r] \in {-1, 0} \cup DbNames
         /\ mergedRows[r] \in 0..MaxEntries

====
